---- MODULE Spec2Model ----
(***************************************************************************)
(* Model of the pixel-canvas compositing engine: Scene (scene/scene.rs),   *)
(* ImageSprite (scene/sprite.rs), Transform2D (math/transform.rs) and      *)
(* Matrix3x3 (math/matrix.rs).                                             *)
(*                                                                         *)
(* All f32 arithmetic of the source is modelled bit-exactly: an f32 value  *)
(* is a record [s, m, e] standing for s * m * 2^e with sign s in {1,-1}    *)
(* and either m = 0 or 2^23 <= m < 2^24 (24-bit significand), and every    *)
(* operation rounds to nearest, ties to even, as IEEE-754 binary32 does.   *)
(* Infinities, NaN and subnormals are outside the bounded inputs.          *)
(***************************************************************************)
EXTENDS Integers, Sequences, FiniteSets, TLC

\* ------------------------------------------------------------------------
\* f32 arithmetic (Rust primitive type f32)
\* ------------------------------------------------------------------------

RECURSIVE Pow2Rec(_)
Pow2Rec(n) == IF n = 0 THEN 1 ELSE 2 * Pow2Rec(n - 1)

\* 2^n for 0 <= n <= 30, tabulated
Pow2Tab == [n \in 0..30 |-> Pow2Rec(n)]

Pow2(n) == Pow2Tab[n]

P6  == Pow2(6)
P12 == Pow2(12)
P18 == Pow2(18)
P23 == Pow2(23)
P24 == Pow2(24)

FZero == [s |-> 1, m |-> 0, e |-> 0]

\* Round the exact magnitude (I + fn/fd) * 2^e, 0 <= fn < fd, to 24 bits,
\* nearest-even, and attach the sign.
RECURSIVE RoundInt(_, _, _, _, _)
RoundInt(sg, I, fn, fd, e) ==
    IF I = 0 /\ fn = 0 THEN FZero
    ELSE IF fn = 0 /\ I < P12 THEN RoundInt(sg, I * P12, 0, fd, e - 12)
    ELSE IF fn = 0 /\ I < P18 THEN RoundInt(sg, I * P6, 0, fd, e - 6)
    ELSE IF I < P23 THEN
        IF 2 * fn >= fd THEN RoundInt(sg, 2 * I + 1, 2 * fn - fd, fd, e - 1)
                        ELSE RoundInt(sg, 2 * I, 2 * fn, fd, e - 1)
    ELSE IF I >= P24 THEN
        RoundInt(sg, I \div 2, (I % 2) * fd + fn, 2 * fd, e + 1)
    ELSE LET up == (2 * fn > fd) \/ (2 * fn = fd /\ I % 2 = 1)
             q  == IF up THEN I + 1 ELSE I
         IN  IF q = P24 THEN [s |-> sg, m |-> P23, e |-> e + 1]
                        ELSE [s |-> sg, m |-> q, e |-> e]

\* `n as f32` for an integer |n| < 2^24 (exact)
FromInt(n) == IF n < 0 THEN RoundInt(-1, -n, 0, 1, 0) ELSE RoundInt(1, n, 0, 1, 0)

\* n / 2^k as f32, for an integer |n| < 2^24 (exact): the dyadic literals
FromDyadic(n, k) ==
    LET x == FromInt(n) IN IF x.m = 0 THEN x ELSE [x EXCEPT !.e = x.e - k]

FNeg(x) == IF x.m = 0 THEN x ELSE [x EXCEPT !.s = -x.s]

\* magnitude comparison |x| < |y|
MagLess(x, y) ==
    IF x.m = 0 THEN y.m # 0
    ELSE IF y.m = 0 THEN FALSE
    ELSE x.e < y.e \/ (x.e = y.e /\ x.m < y.m)

\* x < y and x >= y on f32
FLess(x, y) ==
    IF x.m = 0 /\ y.m = 0 THEN FALSE
    ELSE IF x.m = 0 THEN y.s = 1
    ELSE IF y.m = 0 THEN x.s = -1
    ELSE IF x.s # y.s THEN x.s = -1
    ELSE IF x.s = 1 THEN MagLess(x, y) ELSE MagLess(y, x)

FGeq(x, y) == ~FLess(x, y)

\* |x| + |y| with sign sg, for |x| >= |y| > 0
MagAdd(sg, x, y) ==
    LET d == x.e - y.e
    IN  IF d >= 25 THEN [x EXCEPT !.s = sg]
        ELSE RoundInt(sg, x.m + (y.m \div Pow2(d)), y.m % Pow2(d), Pow2(d), x.e)

\* |x| - |y| with sign sg, for |x| >= |y| > 0
MagSub(sg, x, y) ==
    LET d == x.e - y.e
    IN  IF d >= 26 THEN [x EXCEPT !.s = sg]
        ELSE IF d <= 2 THEN
            RoundInt(sg, 4 * x.m - y.m * Pow2(2 - d), 0, 1, x.e - 2)
        ELSE LET fd == Pow2(d - 2)
                 yq == y.m \div fd
                 yr == y.m % fd
             IN  IF yr = 0 THEN RoundInt(sg, 4 * x.m - yq, 0, 1, x.e - 2)
                 ELSE RoundInt(sg, 4 * x.m - yq - 1, fd - yr, fd, x.e - 2)

\* x + y on f32
FAdd(x, y) ==
    IF y.m = 0 THEN x
    ELSE IF x.m = 0 THEN y
    ELSE IF x.s = y.s THEN
        IF MagLess(x, y) THEN MagAdd(x.s, y, x) ELSE MagAdd(x.s, x, y)
    ELSE IF MagLess(x, y) THEN MagSub(y.s, y, x)
    ELSE IF MagLess(y, x) THEN MagSub(x.s, x, y)
    ELSE FZero

\* x - y on f32
FSub(x, y) == FAdd(x, FNeg(y))

\* x * y on f32: the 48-bit product of the significands in 12-bit limbs
FMul(x, y) ==
    IF x.m = 0 \/ y.m = 0 THEN FZero
    ELSE LET a1 == x.m \div P12
             a0 == x.m % P12
             b1 == y.m \div P12
             b0 == y.m % P12
             t0 == a0 * b0
             t1 == a1 * b0 + a0 * b1 + (t0 \div P12)
             t2 == a1 * b1 + (t1 \div P12)
             low == (t1 % P12) * P12 + (t0 % P12)
         IN  RoundInt(x.s * y.s, t2, low, P24, x.e + y.e + 24)

\* long division of the significands: the quotient bits of n / d, one per
\* step, until the quotient has 24 bits
RECURSIVE DivBits(_, _, _, _, _)
DivBits(sg, q, r, d, e) ==
    LET bit == IF r >= d THEN 1 ELSE 0
        q2  == 2 * q + bit
        r2  == r - bit * d
    IN  IF q2 >= P23 THEN RoundInt(sg, q2, r2, d, e)
        ELSE DivBits(sg, q2, 2 * r2, d, e - 1)

\* x / y on f32, y # 0
FDiv(x, y) ==
    IF x.m = 0 THEN FZero
    ELSE DivBits(x.s * y.s, 0, x.m, y.m, x.e - y.e)

\* `x as u8`: truncation toward zero, saturating at 0 and 255
ToU8(x) ==
    IF x.m = 0 \/ x.s = -1 THEN 0
    ELSE IF x.e >= 0 THEN 255
    ELSE IF x.e < -30 THEN 0
    ELSE LET t == x.m \div Pow2(-x.e) IN IF t > 255 THEN 255 ELSE t

\* `x as u32` for 0 <= x < 2^24: truncation toward zero
ToU32(x) ==
    IF x.m = 0 \/ x.s = -1 THEN 0
    ELSE IF x.e >= 0 THEN x.m * Pow2(x.e)
    ELSE IF x.e < -30 THEN 0
    ELSE x.m \div Pow2(-x.e)

\* ------------------------------------------------------------------------
\* ImageSprite::render_to, the per-pixel compositing (sprite.rs 275-302)
\* ------------------------------------------------------------------------

\* `b as f32` for a byte b, tabulated
ByteF32 == [b \in 0..255 |-> FromInt(b)]

F255 == ByteF32[255]
FOne == ByteF32[1]

\* `b as f32 / 255.0` for a byte b, tabulated
UnitF32 == [b \in 0..255 |-> FDiv(ByteF32[b], F255)]

\* `pixel[3] as f32 / 255.0`
SrcAlpha(a) == UnitF32[a]

\* one colour channel of the blend branch: (s * alpha + d * inv_alpha) as u8
BlendChannel(s, d, alpha, inv_alpha) ==
    ToU8(FAdd(FMul(ByteF32[s], alpha), FMul(ByteF32[d], inv_alpha)))

\* the alpha channel of the blend branch:
\* ((alpha + d / 255.0 * inv_alpha) * 255.0) as u8
BlendAlpha(d, alpha, inv_alpha) ==
    ToU8(FMul(FAdd(alpha, FMul(UnitF32[d], inv_alpha)), F255))

\* the blend branch (sprite.rs 287-300)
BlendWith(pixel, dst, alpha, inv_alpha) ==
    << BlendChannel(pixel[1], dst[1], alpha, inv_alpha),
       BlendChannel(pixel[2], dst[2], alpha, inv_alpha),
       BlendChannel(pixel[3], dst[3], alpha, inv_alpha),
       BlendAlpha(dst[4], alpha, inv_alpha) >>

\* a blend whose opaque branch copies R, G, B and keeps the destination alpha
BlendPixelKeepAlpha(pixel, dst) ==
    IF FLess(FZero, SrcAlpha(pixel[4])) THEN
        IF FGeq(SrcAlpha(pixel[4]), FOne) THEN <<pixel[1], pixel[2], pixel[3], dst[4]>>
        ELSE BlendWith(pixel, dst, SrcAlpha(pixel[4]), FSub(FOne, SrcAlpha(pixel[4])))
    ELSE dst

\* The four destination bytes after compositing source pixel `pixel`
\* (RGBA) over destination bytes `dst` (RGBA) (sprite.rs 276-302).
BlendPixel(pixel, dst) ==
    IF FLess(FZero, SrcAlpha(pixel[4])) THEN
        IF FGeq(SrcAlpha(pixel[4]), FOne) THEN <<pixel[1], pixel[2], pixel[3], 255>>
        ELSE BlendWith(pixel, dst, SrcAlpha(pixel[4]), FSub(FOne, SrcAlpha(pixel[4])))
    ELSE dst

\* ------------------------------------------------------------------------
\* Matrix3x3 (math/matrix.rs): a sequence of 9 f32, row-major; data[i] of
\* the source is m[i+1] here.
\* ------------------------------------------------------------------------

\* the f32 literal 1e-10 (0x2EDBE6FF)
Epsilon == [s |-> 1, m |-> 14411519, e |-> -57]

FAbs(x) == [x EXCEPT !.s = 1]

identity == <<FOne, FZero, FZero, FZero, FOne, FZero, FZero, FZero, FOne>>

translation(tx, ty) == <<FOne, FZero, tx, FZero, FOne, ty, FZero, FZero, FOne>>

scaling(sx, sy) == <<sx, FZero, FZero, FZero, sy, FZero, FZero, FZero, FOne>>

\* f32::cos and f32::sin on the angles the model uses: 0 and the f32
\* nearest to pi/4 (0x3F490FDB), pi/2 (0x3FC90FDB) and pi (0x40490FDB).
\* cos(pi/4) = sin(pi/4) = 0.70710677 (0x3F3504F3), cos(pi/2) =
\* -4.371139e-8 (0xB33BBD2E), sin(pi) = -8.742278e-8 (0xB3BBBD2E).
QuarterPi == [s |-> 1, m |-> 13176795, e |-> -24]
HalfPi == [s |-> 1, m |-> 13176795, e |-> -23]
Pi == [s |-> 1, m |-> 13176795, e |-> -22]
Angles == {FZero, QuarterPi, HalfPi, Pi}
FCos(angle) ==
    CASE angle.m = 0 -> FOne
      [] angle = QuarterPi -> [s |-> 1, m |-> 11863283, e |-> -24]
      [] angle = Pi -> FNeg(FOne)
      [] OTHER -> [s |-> -1, m |-> 12303662, e |-> -48]
FSin(angle) ==
    CASE angle.m = 0 -> FZero
      [] angle = QuarterPi -> [s |-> 1, m |-> 11863283, e |-> -24]
      [] angle = Pi -> [s |-> -1, m |-> 12303662, e |-> -47]
      [] OTHER -> FOne

\* f32::to_radians: degrees * (PI / 180.0)
to_radians(degrees) == FMul(degrees, FDiv(Pi, FromInt(180)))

rotation(angle) ==
    LET cos == FCos(angle)
        sin == FSin(angle)
    IN  <<cos, FNeg(sin), FZero, sin, cos, FZero, FZero, FZero, FOne>>

\* a[i]*b[j] + a[k]*b[l] + a[p]*b[q], left to right
Dot3(x1, y1, x2, y2, x3, y3) == FAdd(FAdd(FMul(x1, y1), FMul(x2, y2)), FMul(x3, y3))

\* a product with the operands taken in the other order: other * self
multiply_swapped(a, b) ==
    << Dot3(b[1], a[1], b[2], a[4], b[3], a[7]),
       Dot3(b[1], a[2], b[2], a[5], b[3], a[8]),
       Dot3(b[1], a[3], b[2], a[6], b[3], a[9]),
       Dot3(b[4], a[1], b[5], a[4], b[6], a[7]),
       Dot3(b[4], a[2], b[5], a[5], b[6], a[8]),
       Dot3(b[4], a[3], b[5], a[6], b[6], a[9]),
       Dot3(b[7], a[1], b[8], a[4], b[9], a[7]),
       Dot3(b[7], a[2], b[8], a[5], b[9], a[8]),
       Dot3(b[7], a[3], b[8], a[6], b[9], a[9]) >>

multiply(a, b) ==
    << Dot3(a[1], b[1], a[2], b[4], a[3], b[7]),
       Dot3(a[1], b[2], a[2], b[5], a[3], b[8]),
       Dot3(a[1], b[3], a[2], b[6], a[3], b[9]),
       Dot3(a[4], b[1], a[5], b[4], a[6], b[7]),
       Dot3(a[4], b[2], a[5], b[5], a[6], b[8]),
       Dot3(a[4], b[3], a[5], b[6], a[6], b[9]),
       Dot3(a[7], b[1], a[8], b[4], a[9], b[7]),
       Dot3(a[7], b[2], a[8], b[5], a[9], b[8]),
       Dot3(a[7], b[3], a[8], b[6], a[9], b[9]) >>

\* m.transform_point(point), point = <<x, y>>
transform_point(m, point) ==
    << FAdd(FAdd(FMul(m[1], point[1]), FMul(m[2], point[2])), m[3]),
       FAdd(FAdd(FMul(m[4], point[1]), FMul(m[5], point[2])), m[6]) >>

\* x*y - z*w
Cross(x, y, z, w) == FSub(FMul(x, y), FMul(z, w))

determinant(m) ==
    FAdd(FSub(FMul(m[1], Cross(m[5], m[9], m[6], m[8])),
              FMul(m[2], Cross(m[4], m[9], m[6], m[7]))),
         FMul(m[3], Cross(m[4], m[8], m[5], m[7])))

\* `det.abs() < 1e-10`: the matrix has no inverse
IsSingular(det) == FLess(FAbs(det), Epsilon)

\* the cofactors times inv_det, left untransposed
Cofactors(m, inv_det) ==
    << FMul(Cross(m[5], m[9], m[6], m[8]), inv_det),
       FMul(Cross(m[6], m[7], m[4], m[9]), inv_det),
       FMul(Cross(m[4], m[8], m[5], m[7]), inv_det),
       FMul(Cross(m[3], m[8], m[2], m[9]), inv_det),
       FMul(Cross(m[1], m[9], m[3], m[7]), inv_det),
       FMul(Cross(m[2], m[7], m[1], m[8]), inv_det),
       FMul(Cross(m[2], m[6], m[3], m[5]), inv_det),
       FMul(Cross(m[3], m[4], m[1], m[6]), inv_det),
       FMul(Cross(m[1], m[5], m[2], m[4]), inv_det) >>

\* the matrix Matrix3x3::inverse builds from inv_det = 1.0 / det
Adjugate(m, inv_det) ==
    << FMul(Cross(m[5], m[9], m[6], m[8]), inv_det),
       FMul(Cross(m[3], m[8], m[2], m[9]), inv_det),
       FMul(Cross(m[2], m[6], m[3], m[5]), inv_det),
       FMul(Cross(m[6], m[7], m[4], m[9]), inv_det),
       FMul(Cross(m[1], m[9], m[3], m[7]), inv_det),
       FMul(Cross(m[3], m[4], m[1], m[6]), inv_det),
       FMul(Cross(m[4], m[8], m[5], m[7]), inv_det),
       FMul(Cross(m[2], m[7], m[1], m[8]), inv_det),
       FMul(Cross(m[1], m[5], m[2], m[4]), inv_det) >>

\* Matrix3x3::inverse once det is known
InverseWith(m, det) ==
    IF IsSingular(det) THEN <<>> ELSE <<Adjugate(m, FDiv(FOne, det))>>

\* Matrix3x3::inverse: <<>> stands for None, <<inv>> for Some(inv)
inverse(m) == InverseWith(m, determinant(m))

\* ------------------------------------------------------------------------
\* Transform2D (math/transform.rs)
\* ------------------------------------------------------------------------

\* Transform2D::new
NewTransform ==
    [ position |-> <<FZero, FZero>>,
      rotation |-> FZero,
      scale    |-> <<FOne, FOne>>,
      anchor   |-> <<FromDyadic(1, 1), FromDyadic(1, 1)>>,
      matrix_cache |-> <<>> ]

invalidate_cache(t) == [t EXCEPT !.matrix_cache = <<>>]

set_position(t, x, y) == invalidate_cache([t EXCEPT !.position = <<x, y>>])
set_rotation(t, angle) == invalidate_cache([t EXCEPT !.rotation = angle])
set_scale(t, sx, sy) == invalidate_cache([t EXCEPT !.scale = <<sx, sy>>])
set_anchor(t, ax, ay) == invalidate_cache([t EXCEPT !.anchor = <<ax, ay>>])
set_rotation_degrees(t, degrees) ==
    invalidate_cache([t EXCEPT !.rotation = to_radians(degrees)])
set_uniform_scale(t, sc) == invalidate_cache([t EXCEPT !.scale = <<sc, sc>>])
\* a translate that forgets to drop the cached matrix
translate_keeps_cache(t, dx, dy) ==
    [t EXCEPT !.position = <<FAdd(t.position[1], dx), FAdd(t.position[2], dy)>>]

translate(t, dx, dy) ==
    invalidate_cache([t EXCEPT !.position = <<FAdd(t.position[1], dx),
                                              FAdd(t.position[2], dy)>>])
rotate(t, angle) == invalidate_cache([t EXCEPT !.rotation = FAdd(t.rotation, angle)])
rotate_degrees(t, degrees) ==
    invalidate_cache([t EXCEPT !.rotation = FAdd(t.rotation, to_radians(degrees))])
scale_by(t, sx, sy) ==
    invalidate_cache([t EXCEPT !.scale = <<FMul(t.scale[1], sx),
                                           FMul(t.scale[2], sy)>>])

\* Transform2D::matrix: the transform after the call (cache filled) ...
matrix_fill(t) ==
    IF t.matrix_cache # <<>> THEN t
    ELSE [t EXCEPT !.matrix_cache =
            << multiply(multiply(translation(t.position[1], t.position[2]),
                                 rotation(t.rotation)),
                        scaling(t.scale[1], t.scale[2])) >>]

\* ... and the matrix it returns
matrix(t) == matrix_fill(t).matrix_cache[1]

\* a matrix_with_size that composes the anchor offset on the left
matrix_with_size_left(t, width, height) ==
    multiply(translation(FMul(FNeg(t.anchor[1]), width),
                         FMul(FNeg(t.anchor[2]), height)),
             matrix(t))

\* Transform2D::matrix_with_size: the matrix it returns
matrix_with_size(t, width, height) ==
    LET anchor_offset == translation(FMul(FNeg(t.anchor[1]), width),
                                     FMul(FNeg(t.anchor[2]), height))
    IN  multiply(matrix(t), anchor_offset)

\* ------------------------------------------------------------------------
\* ImageFormat (format.rs) and ImageSprite (scene/sprite.rs)
\* ------------------------------------------------------------------------

Grayscale == 1
Rgb == 3
Rgba == 4

\* a u32 as its four bytes, lowest first
U32Bytes(n) == [i \in 1..4 |-> (n \div 256 ^ (i - 1)) % 256]

\* the number a byte sequence stands for (computed for small values only)
BytesValue(x) == x[1] + 256 * x[2] + 65536 * x[3] + 16777216 * x[4]

\* byte i of x, 0 past its end
ByteAt(x, i) == IF i \in 1..Len(x) THEN x[i] ELSE 0

\* column k of the long multiplication of a by b: the sum of a[i] * b[j]
\* over i + j = k + 1, from i on
RECURSIVE ColumnSum(_, _, _, _)
ColumnSum(a, b, k, i) ==
    IF i > k THEN 0
    ELSE ByteAt(a, i) * ByteAt(b, k + 1 - i) + ColumnSum(a, b, k, i + 1)

\* column k with the carry of the columns below it
RECURSIVE Carried(_, _, _)
Carried(a, b, k) ==
    ColumnSum(a, b, k, 1) + (IF k = 1 THEN 0 ELSE Carried(a, b, k - 1) \div 256)

\* the product of a and b in full, as Len(a) + Len(b) bytes
FullProduct(a, b) == [k \in 1..(Len(a) + Len(b)) |-> Carried(a, b, k) % 256]

\* a * b on u32 where overflow wraps (a build without overflow checks)
wrapping_mul(a, b) == SubSeq(FullProduct(a, b), 1, 4)

\* a * b on u32 overflows (a build with overflow checks panics)
MulOverflows(a, b) == \E k \in 5..8 : FullProduct(a, b)[k] # 0

\* (width * height * channels) as usize, the multiplications wrapping
buffer_size(w, h, channels) ==
    BytesValue(wrapping_mul(wrapping_mul(U32Bytes(w), U32Bytes(h)), U32Bytes(channels)))

\* one of the two multiplications overflows
SizeOverflows(w, h, channels) ==
    \/ MulOverflows(U32Bytes(w), U32Bytes(h))
    \/ MulOverflows(wrapping_mul(U32Bytes(w), U32Bytes(h)), U32Bytes(channels))

\* whether the constructor panics: never when the size fits; when it
\* overflows, in a build with overflow checks and not in one without
AllocPanics(w, h, channels) ==
    IF SizeOverflows(w, h, channels) THEN {FALSE, TRUE} ELSE {FALSE}

\* a sequence of n bytes, all b: vec![b; n]
RECURSIVE Fill(_, _)
Fill(b, n) == IF n = 0 THEN <<>> ELSE <<b>> \o Fill(b, n - 1)

\* ImageSprite::new, given the id drawn from generate_sprite_id
NewImageSprite(id, w, h, format) ==
    [ id |-> id, buffer |-> Fill(0, buffer_size(w, h, format)), width |-> w, height |-> h,
      format |-> format, transform |-> NewTransform, z_order |-> 0 ]

\* ImageSprite::from_buffer, given the id drawn from generate_sprite_id
from_buffer(id, bytes, w, h, format) ==
    [ id |-> id, buffer |-> bytes, width |-> w, height |-> h,
      format |-> format, transform |-> NewTransform, z_order |-> 0 ]

\* get_pixel_rgba reads buffer[base .. base + channels - 1]; an index past
\* the end of the Vec panics
PixelReadable(sp, x, y) ==
    ((y * sp.width + x) + 1) * sp.format <= Len(sp.buffer)

\* a get_pixel_rgba that takes the gray value for the alpha as well, and
\* the red value of an RGB pixel
get_pixel_gray_alpha(sp, x, y) ==
    IF sp.format = Rgba THEN
        <<sp.buffer[(y * sp.width + x) * 4 + 1], sp.buffer[(y * sp.width + x) * 4 + 2],
          sp.buffer[(y * sp.width + x) * 4 + 3], sp.buffer[(y * sp.width + x) * 4 + 4]>>
    ELSE IF sp.format = Rgb THEN
        <<sp.buffer[(y * sp.width + x) * 3 + 1], sp.buffer[(y * sp.width + x) * 3 + 2],
          sp.buffer[(y * sp.width + x) * 3 + 3], sp.buffer[(y * sp.width + x) * 3 + 1]>>
    ELSE <<sp.buffer[y * sp.width + x + 1], sp.buffer[y * sp.width + x + 1],
           sp.buffer[y * sp.width + x + 1], sp.buffer[y * sp.width + x + 1]>>

\* ImageSprite::get_pixel_rgba (buffer[i] of the source is buffer[i+1] here)
get_pixel_rgba(sp, x, y) ==
    LET idx == y * sp.width + x
    IN  IF sp.format = Rgba THEN
            LET base == idx * 4
            IN  <<sp.buffer[base + 1], sp.buffer[base + 2],
                  sp.buffer[base + 3], sp.buffer[base + 4]>>
        ELSE IF sp.format = Rgb THEN
            LET base == idx * 3
            IN  <<sp.buffer[base + 1], sp.buffer[base + 2], sp.buffer[base + 3], 255>>
        ELSE LET gray == sp.buffer[idx + 1]
             IN  <<gray, gray, gray, 255>>

\* the four bytes of target pixel k (target_idx = k * 4)
TargetPixel(target, k) ==
    <<target[4 * k + 1], target[4 * k + 2], target[4 * k + 3], target[4 * k + 4]>>

WritePixel(target, k, px) ==
    [target EXCEPT ![4 * k + 1] = px[1], ![4 * k + 2] = px[2],
                   ![4 * k + 3] = px[3], ![4 * k + 4] = px[4]]

\* the source coordinate of target pixel (tx, ty): inv_matrix.transform_point
SourcePoint(inv_matrix, tx, ty) ==
    transform_point(inv_matrix, <<FromInt(tx), FromInt(ty)>>)

\* a bounds test made after truncation towards zero: it lets (-1, 0) through
InBoundsTruncated(sp, src) ==
    /\ FLess(FromInt(-1), src[1])
    /\ FLess(src[1], FromInt(sp.width))
    /\ FLess(FromInt(-1), src[2])
    /\ FLess(src[2], FromInt(sp.height))

\* the bounds check of render_to (sprite.rs 269)
InBounds(sp, src) ==
    /\ FGeq(src[1], FZero)
    /\ FLess(src[1], FromInt(sp.width))
    /\ FGeq(src[2], FZero)
    /\ FLess(src[2], FromInt(sp.height))

\* The body of the loop of render_to for target pixel k, whose source
\* coordinate is src, already found in bounds: the target afterwards and
\* whether an index panicked.
SamplePixel(sp, target, k, src_x, src_y) ==
    IF ~PixelReadable(sp, src_x, src_y) THEN [target |-> target, panicked |-> TRUE]
    ELSE IF ~FLess(FZero, SrcAlpha(get_pixel_rgba(sp, src_x, src_y)[4]))
    THEN [target |-> target, panicked |-> FALSE]
    ELSE IF 4 * k + 4 > Len(target) THEN [target |-> target, panicked |-> TRUE]
    ELSE [target |-> WritePixel(target, k,
                        BlendPixel(get_pixel_rgba(sp, src_x, src_y),
                                   TargetPixel(target, k))),
          panicked |-> FALSE]

\* The body of the loop of render_to for target pixel k with source
\* coordinate src (sprite.rs 265-303)
RenderPixel(sp, target, k, src) ==
    IF InBounds(sp, src) THEN SamplePixel(sp, target, k, ToU32(src[1]), ToU32(src[2]))
    ELSE [target |-> target, panicked |-> FALSE]

\* The loop of render_to over the target pixels k = ty * target_width + tx,
\* from pixel k on.  The result is the target and whether an index panicked;
\* a panic leaves the pixels written so far.
RECURSIVE RenderLoop(_, _, _, _, _, _)
RenderLoopNext(sp, inv_matrix, r, target_width, target_height, k) ==
    IF r.panicked THEN r
    ELSE RenderLoop(sp, inv_matrix, r.target, target_width, target_height, k)

RenderLoop(sp, inv_matrix, target, target_width, target_height, k) ==
    IF k >= target_width * target_height THEN [target |-> target, panicked |-> FALSE]
    ELSE RenderLoopNext(sp, inv_matrix,
             RenderPixel(sp, target, k,
                 SourcePoint(inv_matrix, k % target_width, k \div target_width)),
             target_width, target_height, k + 1)

\* Sprite::get_transform_matrix
get_transform_matrix(sp) ==
    matrix_with_size(sp.transform, FromInt(sp.width), FromInt(sp.height))

\* a render_to that unwraps the inverse: a singular matrix panics
RenderWithUnwrap(sp, inv, target, target_width, target_height) ==
    IF inv = <<>> THEN [target |-> target, panicked |-> TRUE]
    ELSE RenderLoop(sp, inv[1], target, target_width, target_height, 0)

\* render_to once the inverse is known (sprite.rs 250-306)
RenderWith(sp, inv, target, target_width, target_height) ==
    IF inv = <<>> THEN [target |-> target, panicked |-> FALSE]
    ELSE RenderLoop(sp, inv[1], target, target_width, target_height, 0)

\* ImageSprite::render_to: the target afterwards and whether it panicked
render_to(sp, target, target_width, target_height) ==
    RenderWith(sp, inverse(get_transform_matrix(sp)), target, target_width, target_height)

\* a render_to that folds the anchor into the cached matrix and resets it
render_to_sprite_reanchored(sp) ==
    [sp EXCEPT !.transform = [matrix_fill(sp.transform) EXCEPT !.anchor = <<FZero, FZero>>]]

\* render_to takes &mut self: the sprite afterwards (matrix cache filled)
render_to_sprite(sp) == [sp EXCEPT !.transform = matrix_fill(sp.transform)]

\* ------------------------------------------------------------------------
\* Scene (scene/scene.rs): pure parts
\* ------------------------------------------------------------------------

\* Vec::resize(n, v): truncates, or extends with v; kept elements keep
\* their values
VecResize(buf, n, v) == [i \in 1..n |-> IF i <= Len(buf) THEN buf[i] ELSE v]

\* a fill that writes R, G, B and leaves the alpha byte
clear_buffer_rgb(buf, bg) ==
    [i \in 1..Len(buf) |-> IF (i - 1) % 4 = 3 THEN buf[i] ELSE bg[((i - 1) % 4) + 1]]

\* Scene::clear_buffer: every pixel becomes the background colour
clear_buffer(buf, bg) == [i \in 1..Len(buf) |-> bg[((i - 1) % 4) + 1]]

\* an insertion that puts x before the elements of equal key: the sort made
\* of it reverses ties
RECURSIVE InsertBeforeTies(_, _)
InsertBeforeTies(x, sorted) ==
    IF sorted = <<>> THEN <<x>>
    ELSE IF Head(sorted).z_order < x.z_order
         THEN <<Head(sorted)>> \o InsertBeforeTies(x, Tail(sorted))
         ELSE <<x>> \o sorted

\* insert sprite x into the z-sorted list after every element whose key is
\* not greater (what keeps the sort stable)
RECURSIVE InsertByZ(_, _)
InsertByZ(x, sorted) ==
    IF sorted = <<>> THEN <<x>>
    ELSE IF Head(sorted).z_order <= x.z_order
         THEN <<Head(sorted)>> \o InsertByZ(x, Tail(sorted))
         ELSE <<x>> \o sorted

\* sprites.sort_by_key(|s| s.z_order()): the stable sort of the list
RECURSIVE SortByZ(_)
SortByZ(list) ==
    IF list = <<>> THEN <<>>
    ELSE InsertByZ(list[Len(list)], SortByZ(SubSeq(list, 1, Len(list) - 1)))

\* a sort that does not look at the dirty flag
sort_always(list, dirty) == SortByZ(list)

\* Scene::sort_sprites: the list afterwards
sort_sprites(list, dirty) == IF dirty THEN SortByZ(list) ELSE list

\* a render loop in which no layer sees what the layers before it painted:
\* the last layer is composited over the cleared buffer alone
RenderSpritesOverBackground(list, i, buf, w, h) ==
    IF list = <<>> THEN [buffer |-> buf, sprites |-> list, panicked |-> FALSE]
    ELSE [buffer |-> render_to(list[Len(list)], buf, w, h).target,
          sprites |-> list,
          panicked |-> render_to(list[Len(list)], buf, w, h).panicked]

\* the loop of Scene::render over the sprites, from sprite i on: each one
\* renders into the same buffer; a panic stops the loop
RECURSIVE RenderSprites(_, _, _, _, _)
RenderSpritesNext(list, i, r, w, h) ==
    IF r.panicked THEN [buffer |-> r.target, sprites |-> list, panicked |-> TRUE]
    ELSE RenderSprites(list, i + 1, r.target, w, h)

RenderSprites(list, i, buf, w, h) ==
    IF i > Len(list) THEN [buffer |-> buf, sprites |-> list, panicked |-> FALSE]
    ELSE RenderSpritesNext([list EXCEPT ![i] = render_to_sprite(list[i])], i,
                           render_to(list[i], buf, w, h), w, h)

\* Scene::render: buffer, sprites and panic flag afterwards
render(list, dirty, buf, bg, w, h) ==
    RenderSprites(sort_sprites(list, dirty), 1, clear_buffer(buf, bg), w, h)

\* the position of the sprite with this id in the list, 0 if there is none
\* (sprites.iter().position(|s| s.id() == id))
RECURSIVE PositionOf(_, _, _)
PositionOf(list, id, i) ==
    IF i > Len(list) THEN 0
    ELSE IF list[i].id = id THEN i
    ELSE PositionOf(list, id, i + 1)

\* Vec::swap_remove(pos): the last element takes the place of the removed
RemoveSwap(list, pos) ==
    [i \in 1..(Len(list) - 1) |-> IF i = pos THEN list[Len(list)] ELSE list[i]]

\* Vec::remove(pos)
RemoveAt(list, pos) == SubSeq(list, 1, pos - 1) \o SubSeq(list, pos + 1, Len(list))

\* ------------------------------------------------------------------------
\* WasmScene of scene/wasm.rs and WasmScene of wasm_demo.rs: pure parts
\* ------------------------------------------------------------------------

\* ImageSprite::create_rectangle: a w x h Rgba sprite filled with one colour
create_rectangle(id, w, h, r, g, b, a) ==
    from_buffer(id, [i \in 1..(w * h * 4) |-> <<r, g, b, a>>[((i - 1) % 4) + 1]],
                w, h, Rgba)

\* a lookup by position in the layer list, the way wasm_demo.rs does it
WasmSpriteAtIndex(ids, list, index) ==
    IF index < Len(ids) /\ index < Len(list) THEN index + 1 ELSE 0

\* a lookup that takes an index past the end for the last entry
WasmSpriteClamped(ids, list, index) ==
    IF ids = <<>> THEN 0
    ELSE IF index < Len(ids) THEN PositionOf(list, ids[index + 1], 1)
    ELSE PositionOf(list, ids[Len(ids)], 1)

\* the layer a per-sprite call of scene/wasm.rs works on: its position in
\* the layer list, or 0 when the index is not below sprite_ids.len() or
\* get_sprite_mut finds no layer of that id
WasmSprite(ids, list, index) ==
    IF index < Len(ids) THEN PositionOf(list, ids[index + 1], 1) ELSE 0

\* reset_sprite_transform: set_position, set_rotation and set_scale
reset_transform(t) ==
    set_scale(set_rotation(set_position(t, FZero, FZero), FZero), FOne, FOne)

\* the sprite with a mutator applied to its transform (the convenience
\* setters of ImageSprite delegate to the transform)
SpriteWithTransform(sp, t) == [sp EXCEPT !.transform = t]

\* add_sprite of wasm_demo.rs: a new Rgba sprite of that z-order, every
\* pixel the colour
demo_sprite(id, w, h, color, z) ==
    [NewImageSprite(id, w, h, Rgba) EXCEPT
        !.z_order = z,
        !.buffer = [i \in 1..(w * h * 4) |-> color[((i - 1) % 4) + 1]]]

\* the bytes of 0xRRGGBBAA, the u32 given as its two 16-bit halves
HexBytes(hi, lo) == <<hi \div 256, hi % 256, lo \div 256, lo % 256>>

\* ------------------------------------------------------------------------
\* State
\* ------------------------------------------------------------------------

VARIABLES
    buffer,            \* Scene.buffer: the output raster, a sequence of bytes
    width,             \* Scene.width
    height,            \* Scene.height
    background_color,  \* Scene.background_color: <<r, g, b, a>>
    sprites,           \* Scene.sprites: the layer list
    needs_sort,        \* Scene.needs_sort: the dirty-sort flag
    NEXT_SPRITE_ID,    \* the static id counter of sprite.rs
    staged,            \* sprites constructed by the caller and not yet added
    panicked,          \* an index out of range has panicked
    inserted,          \* history: the ids passed to Scene::add, in call order
    last_op,           \* history: the operation that ran last
    returned,          \* what the last operation returned: <<>> for (), else <<value>>
    transform,         \* a Transform2D the caller holds by itself
    sprite_ids,        \* WasmScene.sprite_ids of scene/wasm.rs
    demo_sprites,      \* WasmScene.sprites of wasm_demo.rs
    last_index         \* history: the index passed to the last per-sprite call

\* the state outside the Scene and its sprites
caller_vars == <<transform, sprite_ids, demo_sprites, last_index>>

vars == <<buffer, width, height, background_color, sprites, needs_sort,
          NEXT_SPRITE_ID, staged, panicked, inserted, last_op, returned,
          transform, sprite_ids, demo_sprites, last_index>>

\* Scene::new(w, h), no sprite constructed yet
SceneNew(w, h) ==
    /\ buffer = Fill(0, buffer_size(w, h, 4))
    /\ width = w
    /\ height = h
    /\ background_color = <<0, 0, 0, 255>>
    /\ sprites = <<>>
    /\ needs_sort = FALSE
    /\ NEXT_SPRITE_ID = 0
    /\ staged = <<>>
    /\ panicked \in AllocPanics(w, h, 4)
    /\ inserted = <<>>
    /\ last_op = "new"
    /\ returned = <<>>
    /\ transform = NewTransform
    /\ sprite_ids = <<>>
    /\ demo_sprites = <<>>
    /\ last_index = 0


\* ------------------------------------------------------------------------
\* Operations
\* ------------------------------------------------------------------------

\* generate_sprite_id + ImageSprite::new; the size is computed first, and
\* a panic there leaves the counter alone
NewSprite(w, h, format) ==
    /\ ~panicked
    /\ staged = <<>>
    /\ panicked' \in AllocPanics(w, h, format)
    /\ staged' = IF panicked' THEN <<>>
                 ELSE <<NewImageSprite(NEXT_SPRITE_ID, w, h, format)>>
    /\ NEXT_SPRITE_ID' = IF panicked' THEN NEXT_SPRITE_ID ELSE NEXT_SPRITE_ID + 1
    /\ last_op' = "sprite_new"
    /\ returned' = <<>>
    /\ UNCHANGED caller_vars
    /\ UNCHANGED <<buffer, width, height, background_color, sprites, needs_sort,
                   inserted>>

\* SharedBuffer::new of core/buffer.rs: returns the buffer
SharedBufferNew(w, h, format) ==
    /\ ~panicked
    /\ panicked' \in AllocPanics(w, h, format)
    /\ returned' = IF panicked' THEN <<>>
                   ELSE << [width |-> w, height |-> h, format |-> format,
                            buffer |-> Fill(0, buffer_size(w, h, format))] >>
    /\ last_op' = "SharedBuffer::new"
    /\ UNCHANGED caller_vars
    /\ UNCHANGED <<buffer, width, height, background_color, sprites, needs_sort,
                   NEXT_SPRITE_ID, staged, inserted>>

\* a from_buffer whose id generator hands out the counter without
\* incrementing it
FromBufferSameId(bytes, w, h, format) ==
    /\ ~panicked
    /\ staged = <<>>
    /\ staged' = <<from_buffer(NEXT_SPRITE_ID, bytes, w, h, format)>>
    /\ last_op' = "from_buffer"
    /\ returned' = <<>>
    /\ UNCHANGED caller_vars
    /\ UNCHANGED <<buffer, width, height, background_color, sprites, needs_sort,
                   NEXT_SPRITE_ID, panicked, inserted>>

\* generate_sprite_id + ImageSprite::from_buffer: no check of the length
FromBuffer(bytes, w, h, format) ==
    /\ ~panicked
    /\ staged = <<>>
    /\ staged' = <<from_buffer(NEXT_SPRITE_ID, bytes, w, h, format)>>
    /\ NEXT_SPRITE_ID' = NEXT_SPRITE_ID + 1
    /\ last_op' = "from_buffer"
    /\ returned' = <<>>
    /\ UNCHANGED caller_vars
    /\ UNCHANGED <<buffer, width, height, background_color, sprites, needs_sort,
                   panicked, inserted>>

\* ImageSprite::set_z_order on a sprite not yet added
StagedSetZOrder(z) ==
    /\ ~panicked
    /\ staged # <<>>
    /\ staged' = <<[staged[1] EXCEPT !.z_order = z]>>
    /\ last_op' = "staged_set_z_order"
    /\ returned' = <<>>
    /\ UNCHANGED caller_vars
    /\ UNCHANGED <<buffer, width, height, background_color, sprites, needs_sort,
                   NEXT_SPRITE_ID, panicked, inserted>>

\* Scene::add
Add ==
    /\ ~panicked
    /\ staged # <<>>
    /\ sprites' = Append(sprites, staged[1])
    /\ needs_sort' = TRUE
    /\ staged' = <<>>
    /\ inserted' = Append(inserted, staged[1].id)
    /\ last_op' = "add"
    /\ returned' = <<staged[1].id>>
    /\ UNCHANGED caller_vars
    /\ UNCHANGED <<buffer, width, height, background_color, NEXT_SPRITE_ID, panicked>>

\* Scene::remove
Remove(id) ==
    /\ ~panicked
    /\ LET pos == PositionOf(sprites, id, 1)
       IN  sprites' = IF pos # 0 THEN RemoveAt(sprites, pos) ELSE sprites
    /\ last_op' = "remove"
    /\ returned' = <<PositionOf(sprites, id, 1) # 0>>
    /\ UNCHANGED caller_vars
    /\ UNCHANGED <<buffer, width, height, background_color, needs_sort,
                   NEXT_SPRITE_ID, staged, panicked, inserted>>

\* Scene::clear
Clear ==
    /\ ~panicked
    /\ sprites' = <<>>
    /\ needs_sort' = FALSE
    /\ last_op' = "clear"
    /\ returned' = <<>>
    /\ UNCHANGED caller_vars
    /\ UNCHANGED <<buffer, width, height, background_color, NEXT_SPRITE_ID,
                   staged, panicked, inserted>>

\* Scene::resize: width and height are assigned before the size is
\* multiplied out in u32, which panics or wraps when it does not fit
Resize(w, h) ==
    /\ ~panicked
    /\ width' = w
    /\ height' = h
    /\ panicked' \in AllocPanics(w, h, 4)
    /\ buffer' = IF panicked' THEN buffer
                 ELSE VecResize(buffer, buffer_size(w, h, 4), 0)
    /\ last_op' = "resize"
    /\ returned' = <<>>
    /\ UNCHANGED caller_vars
    /\ UNCHANGED <<background_color, sprites, needs_sort, NEXT_SPRITE_ID,
                   staged, inserted>>

\* Scene::set_background_color
SetBackgroundColor(r, g, b, a) ==
    /\ ~panicked
    /\ background_color' = <<r, g, b, a>>
    /\ last_op' = "set_background_color"
    /\ returned' = <<>>
    /\ UNCHANGED caller_vars
    /\ UNCHANGED <<buffer, width, height, sprites, needs_sort, NEXT_SPRITE_ID,
                   staged, panicked, inserted>>

\* Scene::set_background_color_hex, the colour given as its 16-bit halves
SetBackgroundColorHex(hi, lo) ==
    /\ ~panicked
    /\ background_color' = HexBytes(hi, lo)
    /\ last_op' = "set_background_color_hex"
    /\ returned' = <<>>
    /\ UNCHANGED caller_vars
    /\ UNCHANGED <<buffer, width, height, sprites, needs_sort, NEXT_SPRITE_ID,
                   staged, panicked, inserted>>

\* Scene::mark_needs_sort
MarkNeedsSort ==
    /\ ~panicked
    /\ needs_sort' = TRUE
    /\ last_op' = "mark_needs_sort"
    /\ returned' = <<>>
    /\ UNCHANGED caller_vars
    /\ UNCHANGED <<buffer, width, height, background_color, sprites,
                   NEXT_SPRITE_ID, staged, panicked, inserted>>

\* the sprite list with sprite number pos replaced by f of its transform
WithTransform(list, pos, t) == [list EXCEPT ![pos].transform = t]

\* Scene::get_sprite_mut(id) then set_z_order(z)
SetZOrder(id, z) ==
    /\ ~panicked
    /\ PositionOf(sprites, id, 1) # 0
    /\ sprites' = [sprites EXCEPT ![PositionOf(sprites, id, 1)].z_order = z]
    /\ last_op' = "set_z_order"
    /\ returned' = <<>>
    /\ UNCHANGED caller_vars
    /\ UNCHANGED <<buffer, width, height, background_color, needs_sort,
                   NEXT_SPRITE_ID, staged, panicked, inserted>>

\* Scene::get_sprite_mut(id) then transform_mut().set_position(x, y)
SetPosition(id, x, y) ==
    /\ ~panicked
    /\ PositionOf(sprites, id, 1) # 0
    /\ LET pos == PositionOf(sprites, id, 1)
       IN  sprites' = WithTransform(sprites, pos,
                          set_position(sprites[pos].transform, x, y))
    /\ last_op' = "set_position"
    /\ returned' = <<>>
    /\ UNCHANGED caller_vars
    /\ UNCHANGED <<buffer, width, height, background_color, needs_sort,
                   NEXT_SPRITE_ID, staged, panicked, inserted>>

\* Scene::get_sprite_mut(id) then transform_mut().set_anchor(ax, ay)
SetAnchor(id, ax, ay) ==
    /\ ~panicked
    /\ PositionOf(sprites, id, 1) # 0
    /\ LET pos == PositionOf(sprites, id, 1)
       IN  sprites' = WithTransform(sprites, pos,
                          set_anchor(sprites[pos].transform, ax, ay))
    /\ last_op' = "set_anchor"
    /\ returned' = <<>>
    /\ UNCHANGED caller_vars
    /\ UNCHANGED <<buffer, width, height, background_color, needs_sort,
                   NEXT_SPRITE_ID, staged, panicked, inserted>>

\* Scene::get_sprite_mut(id) then transform_mut().set_scale(sx, sy)
SetScale(id, sx, sy) ==
    /\ ~panicked
    /\ PositionOf(sprites, id, 1) # 0
    /\ LET pos == PositionOf(sprites, id, 1)
       IN  sprites' = WithTransform(sprites, pos,
                          set_scale(sprites[pos].transform, sx, sy))
    /\ last_op' = "set_scale"
    /\ returned' = <<>>
    /\ UNCHANGED caller_vars
    /\ UNCHANGED <<buffer, width, height, background_color, needs_sort,
                   NEXT_SPRITE_ID, staged, panicked, inserted>>

\* the state written by Scene::render, r being what it computed
RenderApply(r) ==
    /\ buffer' = r.buffer
    /\ sprites' = r.sprites
    /\ panicked' = r.panicked

\* Scene::render
Render ==
    /\ ~panicked
    /\ RenderApply(render(sprites, needs_sort, buffer, background_color, width, height))
    /\ needs_sort' = FALSE
    /\ last_op' = "render"
    /\ returned' = <<>>
    /\ UNCHANGED caller_vars
    /\ UNCHANGED <<width, height, background_color, NEXT_SPRITE_ID, staged, inserted>>

\* a call on the Transform2D the caller holds: the transform afterwards and
\* what the call returned
TransformCall(op, t, ret) ==
    /\ ~panicked
    /\ transform' = t
    /\ last_op' = op
    /\ returned' = ret
    /\ UNCHANGED <<buffer, width, height, background_color, sprites, needs_sort,
                   NEXT_SPRITE_ID, staged, panicked, inserted, sprite_ids,
                   demo_sprites, last_index>>

TransformSetPosition(x, y) ==
    TransformCall("Transform2D::set_position", set_position(transform, x, y), <<>>)
TransformSetRotation(angle) ==
    TransformCall("Transform2D::set_rotation", set_rotation(transform, angle), <<>>)
TransformSetRotationDegrees(degrees) ==
    TransformCall("Transform2D::set_rotation_degrees",
                  set_rotation_degrees(transform, degrees), <<>>)
TransformSetScale(sx, sy) ==
    TransformCall("Transform2D::set_scale", set_scale(transform, sx, sy), <<>>)
TransformSetUniformScale(sc) ==
    TransformCall("Transform2D::set_uniform_scale", set_uniform_scale(transform, sc), <<>>)
TransformSetAnchor(ax, ay) ==
    TransformCall("Transform2D::set_anchor", set_anchor(transform, ax, ay), <<>>)
TransformTranslate(dx, dy) ==
    TransformCall("Transform2D::translate", translate(transform, dx, dy), <<>>)
TransformRotate(angle) ==
    TransformCall("Transform2D::rotate", rotate(transform, angle), <<>>)
TransformRotateDegrees(degrees) ==
    TransformCall("Transform2D::rotate_degrees", rotate_degrees(transform, degrees), <<>>)
TransformScaleBy(sx, sy) ==
    TransformCall("Transform2D::scale_by", scale_by(transform, sx, sy), <<>>)

\* Transform2D::matrix: fills the cache and returns the matrix
TransformMatrix ==
    TransformCall("Transform2D::matrix", matrix_fill(transform), <<matrix(transform)>>)

\* Transform2D::matrix_with_size: calls matrix(), which fills the cache
TransformMatrixWithSize(w, h) ==
    TransformCall("Transform2D::matrix_with_size", matrix_fill(transform),
                  <<matrix_with_size(transform, w, h), w, h>>)

\* Matrix3x3::inverse called on the matrix that matrix() just returned:
\* returns the matrix and its inverse, <<>> for None
MatrixInverse ==
    /\ last_op = "Transform2D::matrix"
    /\ TransformCall("Matrix3x3::inverse", transform,
                     <<returned[1], inverse(returned[1])>>)

\* WasmScene::add_rectangle of scene/wasm.rs: returns the index
WasmAddRectangle(w, h, r, g, b, a) ==
    /\ ~panicked
    /\ sprites' = Append(sprites, create_rectangle(NEXT_SPRITE_ID, w, h, r, g, b, a))
    /\ NEXT_SPRITE_ID' = NEXT_SPRITE_ID + 1
    /\ needs_sort' = TRUE
    /\ inserted' = Append(inserted, NEXT_SPRITE_ID)
    /\ sprite_ids' = Append(sprite_ids, NEXT_SPRITE_ID)
    /\ last_op' = "WasmScene::add_rectangle"
    /\ returned' = <<Len(sprite_ids)>>
    /\ UNCHANGED <<buffer, width, height, background_color, staged, panicked,
                   transform, demo_sprites, last_index>>

\* the transform of the layer the index designates, when it designates one
WasmTransform(index) == sprites[WasmSprite(sprite_ids, sprites, index)].transform

\* a per-sprite mutator of scene/wasm.rs, t being the transform of the
\* designated layer after the Transform2D mutator it calls
WasmMutator(op, index, t) ==
    /\ ~panicked
    /\ sprites' = IF WasmSprite(sprite_ids, sprites, index) # 0
                  THEN WithTransform(sprites, WasmSprite(sprite_ids, sprites, index), t)
                  ELSE sprites
    /\ last_op' = op
    /\ last_index' = index
    /\ returned' = <<>>
    /\ UNCHANGED <<buffer, width, height, background_color, needs_sort,
                   NEXT_SPRITE_ID, staged, panicked, inserted, transform,
                   sprite_ids, demo_sprites>>

WasmSetSpritePosition(index, x, y) ==
    WasmMutator("WasmScene::set_sprite_position", index, set_position(WasmTransform(index), x, y))
WasmSetSpriteRotation(index, degrees) ==
    WasmMutator("WasmScene::set_sprite_rotation", index,
                set_rotation_degrees(WasmTransform(index), degrees))
WasmSetSpriteScale(index, sx, sy) ==
    WasmMutator("WasmScene::set_sprite_scale", index, set_scale(WasmTransform(index), sx, sy))
WasmSetSpriteUniformScale(index, sc) ==
    WasmMutator("WasmScene::set_sprite_uniform_scale", index,
                set_uniform_scale(WasmTransform(index), sc))
WasmSetSpriteAnchor(index, ax, ay) ==
    WasmMutator("WasmScene::set_sprite_anchor", index, set_anchor(WasmTransform(index), ax, ay))
WasmTranslateSprite(index, dx, dy) ==
    WasmMutator("WasmScene::translate_sprite", index, translate(WasmTransform(index), dx, dy))
WasmRotateSprite(index, degrees) ==
    WasmMutator("WasmScene::rotate_sprite", index, rotate_degrees(WasmTransform(index), degrees))
WasmScaleSpriteBy(index, sx, sy) ==
    WasmMutator("WasmScene::scale_sprite_by", index, scale_by(WasmTransform(index), sx, sy))
WasmResetSpriteTransform(index) ==
    WasmMutator("WasmScene::reset_sprite_transform", index,
                reset_transform(WasmTransform(index)))

\* a per-sprite getter of scene/wasm.rs, value being the field it reads of
\* the designated layer
WasmGetter(op, index, value, default) ==
    /\ ~panicked
    /\ returned' = IF WasmSprite(sprite_ids, sprites, index) # 0
                   THEN <<value>>
                   ELSE <<default>>
    /\ last_op' = op
    /\ last_index' = index
    /\ UNCHANGED <<buffer, width, height, background_color, sprites, needs_sort,
                   NEXT_SPRITE_ID, staged, panicked, inserted, transform,
                   sprite_ids, demo_sprites>>

WasmGetSpritePositionX(index) ==
    WasmGetter("WasmScene::get_sprite_position_x", index, WasmTransform(index).position[1], FZero)
WasmGetSpritePositionY(index) ==
    WasmGetter("WasmScene::get_sprite_position_y", index, WasmTransform(index).position[2], FZero)
WasmGetSpriteRotation(index) ==
    WasmGetter("WasmScene::get_sprite_rotation", index, WasmTransform(index).rotation, FZero)
WasmGetSpriteScaleX(index) ==
    WasmGetter("WasmScene::get_sprite_scale_x", index, WasmTransform(index).scale[1], FOne)
WasmGetSpriteScaleY(index) ==
    WasmGetter("WasmScene::get_sprite_scale_y", index, WasmTransform(index).scale[2], FOne)

\* WasmScene::clear of scene/wasm.rs: Scene::clear and sprite_ids.clear()
WasmClear ==
    /\ ~panicked
    /\ sprites' = <<>>
    /\ needs_sort' = FALSE
    /\ sprite_ids' = <<>>
    /\ last_op' = "WasmScene::clear"
    /\ returned' = <<>>
    /\ UNCHANGED <<buffer, width, height, background_color, NEXT_SPRITE_ID,
                   staged, panicked, inserted, transform, demo_sprites, last_index>>

\* WasmScene::add_sprite of wasm_demo.rs: returns the index
DemoAddSprite(w, h, color, z) ==
    /\ ~panicked
    /\ demo_sprites' = Append(demo_sprites, demo_sprite(NEXT_SPRITE_ID, w, h, color, z))
    /\ NEXT_SPRITE_ID' = NEXT_SPRITE_ID + 1
    /\ last_op' = "demo::add_sprite"
    /\ returned' = <<Len(demo_sprites)>>
    /\ UNCHANGED <<buffer, width, height, background_color, sprites, needs_sort,
                   staged, panicked, inserted, transform, sprite_ids, last_index>>

\* sprites.get_mut(index) of wasm_demo.rs, when it is Some
DemoSprite(index) == demo_sprites[index + 1]

\* a per-sprite mutator of wasm_demo.rs, sp being the sprite the index
\* designates after the setter it calls
DemoMutator(op, index, sp) ==
    /\ ~panicked
    /\ demo_sprites' = IF index < Len(demo_sprites)
                       THEN [demo_sprites EXCEPT ![index + 1] = sp]
                       ELSE demo_sprites
    /\ last_op' = op
    /\ last_index' = index
    /\ returned' = <<>>
    /\ UNCHANGED <<buffer, width, height, background_color, sprites, needs_sort,
                   NEXT_SPRITE_ID, staged, panicked, inserted, transform, sprite_ids>>

DemoSetSpritePosition(index, x, y) ==
    DemoMutator("demo::set_sprite_position", index,
                SpriteWithTransform(DemoSprite(index), set_position(DemoSprite(index).transform, x, y)))
DemoSetSpriteRotation(index, degrees) ==
    DemoMutator("demo::set_sprite_rotation", index,
                SpriteWithTransform(DemoSprite(index), set_rotation_degrees(DemoSprite(index).transform, degrees)))
DemoSetSpriteScale(index, sx, sy) ==
    DemoMutator("demo::set_sprite_scale", index,
                SpriteWithTransform(DemoSprite(index), set_scale(DemoSprite(index).transform, sx, sy)))
DemoSetSpriteUniformScale(index, sc) ==
    DemoMutator("demo::set_sprite_uniform_scale", index,
                SpriteWithTransform(DemoSprite(index), set_uniform_scale(DemoSprite(index).transform, sc)))
DemoSetSpriteAnchor(index, ax, ay) ==
    DemoMutator("demo::set_sprite_anchor", index,
                SpriteWithTransform(DemoSprite(index), set_anchor(DemoSprite(index).transform, ax, ay)))
DemoSetSpriteZOrder(index, z) ==
    DemoMutator("demo::set_sprite_z_order", index, [DemoSprite(index) EXCEPT !.z_order = z])

\* the state written by render of wasm_demo.rs: r is what scene.render()
\* computed, d what the loop over the sorted sprites computed from it
DemoRenderApply(r, d) ==
    /\ sprites' = r.sprites
    /\ buffer' = d.buffer
    /\ demo_sprites' = d.sprites
    /\ panicked' = (r.panicked \/ d.panicked)

\* WasmScene::render of wasm_demo.rs: scene.render(), then the sprites are
\* sorted by z-order in place and each one renders into the scene's buffer
DemoRender ==
    /\ ~panicked
    /\ DemoRenderApply(
           render(sprites, needs_sort, buffer, background_color, width, height),
           RenderSprites(SortByZ(demo_sprites), 1,
               render(sprites, needs_sort, buffer, background_color, width, height).buffer,
               width, height))
    /\ needs_sort' = FALSE
    /\ last_op' = "demo::render"
    /\ returned' = <<>>
    /\ UNCHANGED <<width, height, background_color, NEXT_SPRITE_ID, staged,
                   inserted, transform, sprite_ids, last_index>>

\* WasmScene::clear_sprites of wasm_demo.rs
DemoClearSprites ==
    /\ ~panicked
    /\ demo_sprites' = <<>>
    /\ last_op' = "demo::clear_sprites"
    /\ returned' = <<>>
    /\ UNCHANGED <<buffer, width, height, background_color, sprites, needs_sort,
                   NEXT_SPRITE_ID, staged, panicked, inserted, transform,
                   sprite_ids, last_index>>

\* ------------------------------------------------------------------------
\* Bounds and input sets
\* ------------------------------------------------------------------------

\* sprites ever constructed in SpecSort (caps NEXT_SPRITE_ID there)
MaxSprites == 3
\* sprites ever added in SpecDemo and SpecWasm (caps NEXT_SPRITE_ID there)
MaxDemo == 2
\* sprites ever constructed in Spec (caps NEXT_SPRITE_ID there)
MaxLayers == 2
\* z-orders are drawn from 0..MaxZ
MaxZ == 1
\* scene sizes of SpecRaster are drawn from (0..MaxW) x (0..MaxH)
MaxW == 2
MaxH == 2

\* pixel data handed to from_buffer
OpaqueA == [bytes |-> <<200, 100, 50, 255>>, w |-> 1, h |-> 1, format |-> Rgba]
OpaqueB == [bytes |-> <<10, 20, 30, 255>>, w |-> 1, h |-> 1, format |-> Rgba]
PartlyC == [bytes |-> <<3, 3, 3, 65>>, w |-> 1, h |-> 1, format |-> Rgba]
\* a 2x2 with four different pixels, the last one fully transparent
Quad == [bytes |-> <<11, 12, 13, 255,  21, 22, 23, 255,
                     31, 32, 33, 128,  41, 42, 43, 0>>,
         w |-> 2, h |-> 2, format |-> Rgba]
\* a byte sequence too short for the size it is given with
Short == [bytes |-> <<7, 7, 7, 255>>, w |-> 2, h |-> 1, format |-> Rgba]

\* rows of two pixels in each format, the Rgba one partly transparent
RgbRow == [bytes |-> <<10, 20, 30,  40, 50, 60>>, w |-> 2, h |-> 1, format |-> Rgb]
GrayRow == [bytes |-> <<77, 99>>, w |-> 2, h |-> 1, format |-> Grayscale]
PartlyRow == [bytes |-> <<3, 3, 3, 65,  200, 100, 50, 255>>, w |-> 2, h |-> 1, format |-> Rgba]

\* background colours handed to set_background_color
Backgrounds == { <<0, 0, 0, 255>>, <<255, 0, 0, 255>>, <<40, 80, 120, 100>> }

\* 0xRRGGBBAA colours handed to set_background_color_hex, as 16-bit halves:
\* 0xFF0000FF and 0x12345678
HexColors == { <<65280, 255>>, <<4660, 22136>> }

\* channel values and destination alphas of the compositing runs
ChannelSamples == {3, 200}
AlphaSamples == {100, 255}

\* coordinates (in half pixels) and scale factors of the sampling runs
HalfSteps == {-1, 0, 1, 2}
ScaleSamples == {FromInt(1), FromInt(2), FromInt(3), FromDyadic(1, 1), FromInt(-1)}

\* ------------------------------------------------------------------------
\* Specifications: the same operations over different inputs
\* ------------------------------------------------------------------------

\* sprites ever created through a WasmScene (caps NEXT_SPRITE_ID there);
\* indices are drawn from 0..MaxRects
MaxRects == 1
\* Transform2D::translate is called while position.x is below this
MaxOffset == 2
\* Transform2D::scale_by is called while scale.x is below this
MaxScale == 3

\* Spec: a 1x1 scene of up to MaxLayers layers that differ in colour,
\* z-order and scale (a zero scale has no inverse)
Init == SceneNew(1, 1)

Next ==
    \/ /\ NEXT_SPRITE_ID < MaxLayers
       /\ \E d \in {OpaqueA, OpaqueB, PartlyC} : FromBuffer(d.bytes, d.w, d.h, d.format)
    \/ \E z \in 0..MaxZ : StagedSetZOrder(z)
    \/ Add
    \/ \E id \in 0..(MaxLayers - 1) : Remove(id)
    \/ Clear
    \/ MarkNeedsSort
    \/ \E id \in 0..(MaxLayers - 1), sx \in {FZero, FOne} : SetScale(id, sx, FOne)
    \/ Render

Spec == Init /\ [][Next]_vars

\* SpecSort: up to MaxSprites layers that differ in z-order only
InitSort == SceneNew(1, 1)

NextSort ==
    \/ /\ NEXT_SPRITE_ID < MaxSprites
       /\ FromBuffer(OpaqueA.bytes, OpaqueA.w, OpaqueA.h, OpaqueA.format)
    \/ \E z \in 0..MaxZ : StagedSetZOrder(z)
    \/ Add
    \/ \E id \in 0..(MaxSprites - 1) : Remove(id)
    \/ Clear
    \/ MarkNeedsSort
    \/ Render

SpecSort == InitSort /\ [][NextSort]_vars

\* SpecRaster: scenes of every size up to MaxW x MaxH with at most one
\* layer, resized and re-coloured
InitRaster == \E w \in 0..MaxW, h \in 0..MaxH : SceneNew(w, h)

NextRaster ==
    \/ /\ NEXT_SPRITE_ID < 1
       /\ FromBuffer(OpaqueA.bytes, OpaqueA.w, OpaqueA.h, OpaqueA.format)
    \/ Add
    \/ Clear
    \/ \E w \in 0..MaxW, h \in 0..MaxH : Resize(w, h)
    \/ \E c \in Backgrounds : SetBackgroundColor(c[1], c[2], c[3], c[4])
    \/ \E c \in HexColors : SetBackgroundColorHex(c[1], c[2])
    \/ Render

SpecRaster == InitRaster /\ [][NextRaster]_vars

\* SpecSample: one layer on a 2x2 scene, moved, scaled and re-anchored
InitSample == SceneNew(2, 2)

NextSample ==
    \/ /\ NEXT_SPRITE_ID < 1
       /\ \E d \in {Quad, Short} : FromBuffer(d.bytes, d.w, d.h, d.format)
    \/ /\ NEXT_SPRITE_ID < 1
       /\ NewSprite(1, 1, Rgb)
    \/ Add
    \/ \E x \in HalfSteps, y \in {0, 1} : SetPosition(0, FromDyadic(x, 1), FromDyadic(y, 1))
    \/ \E sx \in ScaleSamples : SetScale(0, sx, FOne)
    \/ \E a \in {0, 1} : SetAnchor(0, FromDyadic(a, 1), FromDyadic(a, 1))
    \/ Render

SpecSample == InitSample /\ [][NextSample]_vars

\* SpecTransform: every mutator of a Transform2D interleaved with matrix()
\* and matrix_with_size(); rotations stay among the angles of the table
InitTransform == SceneNew(1, 1)

NextTransform ==
    \/ \E x, y \in {0, 10} : TransformSetPosition(FromInt(x), FromInt(y))
    \/ \E angle \in {FZero, HalfPi} : TransformSetRotation(angle)
    \/ \E d \in {0, 45, 90} : TransformSetRotationDegrees(FromInt(d))
    \/ \E sc \in {<<1, 1>>, <<2, 2>>, <<2, 3>>} :
           TransformSetScale(FromInt(sc[1]), FromInt(sc[2]))
    \/ \E sc \in {FOne, FromDyadic(1, 1)} : TransformSetUniformScale(sc)
    \/ \E a \in {0, 1} : TransformSetAnchor(FromDyadic(a, 1), FromDyadic(a, 1))
    \/ /\ FLess(transform.position[1], FromInt(MaxOffset))
       /\ TransformTranslate(FOne, FromDyadic(1, 1))
    \/ /\ FAdd(transform.rotation, HalfPi) \in Angles
       /\ TransformRotate(HalfPi)
    \/ /\ FAdd(transform.rotation, QuarterPi) \in Angles
       /\ TransformRotateDegrees(FromInt(45))
    \/ /\ FLess(transform.scale[1], FromInt(MaxScale))
       /\ TransformScaleBy(FromInt(2), FromInt(2))
    \/ TransformMatrix
    \/ \E w \in {1, 2} : TransformMatrixWithSize(FromInt(w), FOne)

SpecTransform == InitTransform /\ [][NextTransform]_vars

\* SpecReorder: up to MaxLayers opaque layers whose z-order is changed
\* through get_sprite_mut after they were added
InitReorder == SceneNew(1, 1)

NextReorder ==
    \/ /\ NEXT_SPRITE_ID < MaxLayers
       /\ \E d \in {OpaqueA, OpaqueB} : FromBuffer(d.bytes, d.w, d.h, d.format)
    \/ \E z \in 0..MaxZ : StagedSetZOrder(z)
    \/ Add
    \/ \E id \in 0..(MaxLayers - 1), z \in 0..MaxZ : SetZOrder(id, z)
    \/ MarkNeedsSort
    \/ Render

SpecReorder == InitReorder /\ [][NextReorder]_vars

\* SpecHost: a host that drives one of the two bindings, whichever it
\* starts with, with up to MaxRects sprites; every per-sprite call is made
\* with every index up to one past the last
InitHost == SceneNew(1, 1)

\* the host drives the WasmScene of scene/wasm.rs
WasmHost == demo_sprites = <<>>
\* the host drives the WasmScene of wasm_demo.rs
DemoHost == sprite_ids = <<>> /\ sprites = <<>>

\* the colour of the sprite created next
NextColor == IF NEXT_SPRITE_ID = 0 THEN OpaqueA.bytes ELSE OpaqueB.bytes

NextHost ==
    \/ /\ WasmHost /\ NEXT_SPRITE_ID < MaxRects
       /\ WasmAddRectangle(1, 1, NextColor[1], NextColor[2], NextColor[3], NextColor[4])
    \/ \E index \in 0..MaxRects :
           WasmHost /\ WasmSetSpritePosition(index, FOne, FromDyadic(1, 1))
    \/ \E index \in 0..MaxRects :
           WasmHost /\ WasmSetSpriteRotation(index, FromInt(90))
    \/ \E index \in 0..MaxRects :
           WasmHost /\ WasmSetSpriteScale(index, FromInt(2), FromInt(2))
    \/ \E index \in 0..MaxRects :
           WasmHost /\ WasmSetSpriteUniformScale(index, FromInt(2))
    \/ \E index \in 0..MaxRects :
           WasmHost /\ WasmSetSpriteAnchor(index, FromDyadic(1, 1), FromDyadic(1, 1))
    \/ \E index \in 0..MaxRects :
           /\ WasmHost
           /\ WasmSprite(sprite_ids, sprites, index) # 0
                  => FLess(WasmTransform(index).position[1], FOne)
           /\ WasmTranslateSprite(index, FOne, FromDyadic(1, 1))
    \/ \E index \in 0..MaxRects :
           /\ WasmHost
           /\ WasmSprite(sprite_ids, sprites, index) # 0
                  => WasmTransform(index).rotation = FZero
           /\ WasmRotateSprite(index, FromInt(90))
    \/ \E index \in 0..MaxRects :
           /\ WasmHost
           /\ WasmSprite(sprite_ids, sprites, index) # 0
                  => FLess(WasmTransform(index).scale[1], FromInt(2))
           /\ WasmScaleSpriteBy(index, FromInt(2), FromInt(2))
    \/ \E index \in 0..MaxRects : WasmHost /\ WasmResetSpriteTransform(index)
    \/ \E index \in 0..MaxRects : WasmHost /\ WasmGetSpritePositionX(index)
    \/ \E index \in 0..MaxRects : WasmHost /\ WasmGetSpritePositionY(index)
    \/ \E index \in 0..MaxRects : WasmHost /\ WasmGetSpriteRotation(index)
    \/ \E index \in 0..MaxRects : WasmHost /\ WasmGetSpriteScaleX(index)
    \/ \E index \in 0..MaxRects : WasmHost /\ WasmGetSpriteScaleY(index)
    \/ WasmHost /\ Render
    \/ WasmHost /\ WasmClear
    \/ /\ DemoHost /\ NEXT_SPRITE_ID < MaxRects
       /\ \E z \in 0..MaxZ : DemoAddSprite(1, 1, NextColor, z)
    \/ \E index \in 0..MaxRects :
           DemoHost /\ DemoSetSpritePosition(index, FOne, FromDyadic(1, 1))
    \/ \E index \in 0..MaxRects :
           DemoHost /\ DemoSetSpriteRotation(index, FromInt(90))
    \/ \E index \in 0..MaxRects :
           DemoHost /\ DemoSetSpriteScale(index, FromInt(2), FromInt(2))
    \/ \E index \in 0..MaxRects :
           DemoHost /\ DemoSetSpriteUniformScale(index, FromInt(2))
    \/ \E index \in 0..MaxRects :
           DemoHost /\ DemoSetSpriteAnchor(index, FromDyadic(1, 1), FromDyadic(1, 1))
    \/ \E index \in 0..MaxRects, z \in 0..MaxZ :
           DemoHost /\ DemoSetSpriteZOrder(index, z)
    \/ DemoHost /\ DemoRender
    \/ DemoHost /\ DemoClearSprites

SpecHost == InitHost /\ [][NextHost]_vars

\* SpecIds: up to MaxSprites layers constructed through new and through
\* from_buffer, added, removed, cleared and rendered
InitIds == SceneNew(1, 1)

NextIds ==
    \/ /\ NEXT_SPRITE_ID < MaxSprites
       /\ NewSprite(1, 1, Rgba)
    \/ /\ NEXT_SPRITE_ID < MaxSprites
       /\ FromBuffer(OpaqueA.bytes, OpaqueA.w, OpaqueA.h, OpaqueA.format)
    \/ StagedSetZOrder(1)
    \/ Add
    \/ \E id \in 0..(MaxSprites - 1) : Remove(id)
    \/ Clear
    \/ Render

SpecIds == InitIds /\ [][NextIds]_vars

\* SpecAlloc: a scene, a sprite and shared buffers constructed in every
\* format, with sizes up to MaxW x MaxH and with sizes whose byte count
\* does not fit a u32
AllocSizes == {<<1, 1>>, <<MaxW, MaxH>>, <<0, 65536>>, <<65536, 65536>>}

InitAlloc == \E size \in AllocSizes : SceneNew(size[1], size[2])

NextAlloc ==
    \/ \E size \in AllocSizes, format \in {Grayscale, Rgb, Rgba} :
           SharedBufferNew(size[1], size[2], format)
    \/ /\ NEXT_SPRITE_ID < 1
       /\ \E size \in AllocSizes, format \in {Grayscale, Rgb, Rgba} :
              NewSprite(size[1], size[2], format)

SpecAlloc == InitAlloc /\ [][NextAlloc]_vars

\* SpecFormats: up to MaxLayers rows of RGB, grayscale and RGBA pixels on a
\* 2x1 scene, each at x = 0 (its second pixel over the first of the scene)
\* or moved to x = 1 (pixel over pixel)
InitFormats == SceneNew(2, 1)

NextFormats ==
    \/ /\ NEXT_SPRITE_ID < MaxLayers
       /\ \E d \in {RgbRow, GrayRow, PartlyRow} : FromBuffer(d.bytes, d.w, d.h, d.format)
    \/ \E z \in 0..MaxZ : StagedSetZOrder(z)
    \/ Add
    \/ \E id \in 0..(MaxLayers - 1) : SetPosition(id, FOne, FZero)
    \/ \E c \in Backgrounds : SetBackgroundColor(c[1], c[2], c[3], c[4])
    \/ Render

SpecFormats == InitFormats /\ [][NextFormats]_vars

\* SpecInverse: the matrices of translations, rotations and scalings and
\* their compositions, each inverted
InitInverse == SceneNew(1, 1)

NextInverse ==
    \/ \E x \in {0, 10, 1000}, y \in {0, 20} : TransformSetPosition(FromInt(x), FromInt(y))
    \/ \E d \in {0, 45, 90} : TransformSetRotationDegrees(FromInt(d))
    \/ \E sc \in {<<1, 1>>, <<2, 2>>, <<3, 3>>, <<2, 3>>} :
           TransformSetScale(FromInt(sc[1]), FromInt(sc[2]))
    \/ TransformMatrix
    \/ MatrixInverse

SpecInverse == InitInverse /\ [][NextInverse]_vars

\* SpecLength: a scene constructed and resized to small sizes and to a size
\* whose byte count does not fit a u32, with up to one layer, re-coloured
\* and rendered (rendered only while the pixel count is small)
LengthSizes == {<<1, 1>>, <<MaxW, 1>>, <<0, 65536>>, <<65536, 65536>>}

InitLength == \E size \in LengthSizes : SceneNew(size[1], size[2])

NextLength ==
    \/ /\ NEXT_SPRITE_ID < 1
       /\ \E d \in {OpaqueA, PartlyC} : FromBuffer(d.bytes, d.w, d.h, d.format)
    \/ Add
    \/ Remove(0)
    \/ Clear
    \/ \E size \in LengthSizes : Resize(size[1], size[2])
    \/ \E c \in Backgrounds : SetBackgroundColor(c[1], c[2], c[3], c[4])
    \/ /\ ~SizeOverflows(width, height, 4)
       /\ Render

SpecLength == InitLength /\ [][NextLength]_vars

\* SpecDemo: the WasmScene of wasm_demo.rs with up to MaxDemo sprites of
\* any z-order, every setter called with every index, rendered and cleared
InitDemo == SceneNew(1, 1)

NextDemo ==
    \/ /\ NEXT_SPRITE_ID < MaxDemo
       /\ \E z \in 0..MaxZ : DemoAddSprite(1, 1, NextColor, z)
    \/ \E index \in 0..(MaxDemo - 1) : DemoSetSpritePosition(index, FOne, FromDyadic(1, 1))
    \/ \E index \in 0..(MaxDemo - 1) : DemoSetSpriteRotation(index, FZero)
    \/ \E index \in 0..(MaxDemo - 1) : DemoSetSpriteScale(index, FOne, FOne)
    \/ \E index \in 0..(MaxDemo - 1) : DemoSetSpriteUniformScale(index, FOne)
    \/ \E index \in 0..(MaxDemo - 1) :
           DemoSetSpriteAnchor(index, FromDyadic(1, 1), FromDyadic(1, 1))
    \/ \E index \in 0..(MaxDemo - 1), z \in 0..MaxZ : DemoSetSpriteZOrder(index, z)
    \/ DemoRender
    \/ DemoClearSprites

SpecDemo == InitDemo /\ [][NextDemo]_vars

\* SpecWasm: the WasmScene of scene/wasm.rs with up to MaxDemo rectangles at
\* a time, cleared and filled again, every per-sprite call with every index.
\* The binding offers no way to change a z-order, so on its own render()
\* never reorders the layer list; the z-orders are changed here through
\* Scene::get_sprite_mut and mark_needs_sort so that it does.
InitWasm == SceneNew(1, 1)

NextWasm ==
    \/ /\ NEXT_SPRITE_ID < MaxDemo + 1 /\ Len(sprite_ids) < MaxDemo
       /\ WasmAddRectangle(1, 1, NextColor[1], NextColor[2], NextColor[3], NextColor[4])
    \/ \E index \in 0..(MaxDemo - 1) : WasmSetSpritePosition(index, FOne, FromDyadic(1, 1))
    \/ \E index \in 0..(MaxDemo - 1) : WasmSetSpriteRotation(index, FZero)
    \/ \E index \in 0..(MaxDemo - 1) : WasmSetSpriteScale(index, FOne, FOne)
    \/ \E index \in 0..(MaxDemo - 1) : WasmSetSpriteUniformScale(index, FOne)
    \/ \E index \in 0..(MaxDemo - 1) :
           WasmSetSpriteAnchor(index, FromDyadic(1, 1), FromDyadic(1, 1))
    \/ \E index \in 0..(MaxDemo - 1) :
           /\ WasmSprite(sprite_ids, sprites, index) # 0
                  => FLess(WasmTransform(index).position[1], FOne)
           /\ WasmTranslateSprite(index, FOne, FromDyadic(1, 1))
    \/ \E index \in 0..(MaxDemo - 1) : WasmRotateSprite(index, FZero)
    \/ \E index \in 0..(MaxDemo - 1) : WasmScaleSpriteBy(index, FOne, FOne)
    \/ \E index \in 0..(MaxDemo - 1) : WasmResetSpriteTransform(index)
    \/ \E index \in 0..(MaxDemo - 1) : WasmGetSpritePositionX(index)
    \/ \E index \in 0..(MaxDemo - 1) : WasmGetSpritePositionY(index)
    \/ \E index \in 0..(MaxDemo - 1) : WasmGetSpriteRotation(index)
    \/ \E index \in 0..(MaxDemo - 1) : WasmGetSpriteScaleX(index)
    \/ \E index \in 0..(MaxDemo - 1) : WasmGetSpriteScaleY(index)
    \/ Render
    \/ WasmClear
    \/ \E id \in 0..MaxDemo, z \in 0..MaxZ : SetZOrder(id, z)
    \/ MarkNeedsSort

SpecWasm == InitWasm /\ [][NextWasm]_vars

\* SpecBlend: one 1x1 layer of every alpha over a 1x1 scene, so that the
\* one pixel is the layer's pixel composited over the background
InitBlend == SceneNew(1, 1)

NextBlend ==
    \/ /\ NEXT_SPRITE_ID < 1
       /\ \E s \in ChannelSamples, a \in 0..255 :
              FromBuffer(<<s, 255 - s, 3, a>>, 1, 1, Rgba)
    \/ Add
    \/ \E d \in ChannelSamples, a \in AlphaSamples : SetBackgroundColor(d, 3, 255 - d, a)
    \/ Render

SpecBlend == InitBlend /\ [][NextBlend]_vars

\* ------------------------------------------------------------------------
\* Properties
\* ------------------------------------------------------------------------

\* the position of value v in sequence seq
IndexIn(seq, v) == CHOOSE i \in 1..Len(seq) : seq[i] = v

IsSortedByZ(list) ==
    \A i \in 1..(Len(list) - 1) : list[i].z_order <= list[i + 1].z_order

\* layer a is painted before layer b: lower z-order, or the same z-order
\* and added earlier
PaintedBefore(a, b) ==
    \/ a.z_order < b.z_order
    \/ a.z_order = b.z_order /\ IndexIn(inserted, a.id) < IndexIn(inserted, b.id)

\* the pixels of the scene: 0 .. width * height - 1
Pixels == 0..(width * height - 1)

\* the layer has a zero scale component
ZeroScale(sp) == sp.transform.scale[1].m = 0 \/ sp.transform.scale[2].m = 0

\* the layer takes part in pixel k of the scene: its matrix has an inverse
\* and the inverse maps the pixel inside the layer
CoversWith(sp, inv, k) ==
    /\ inv # <<>>
    /\ InBounds(sp, SourcePoint(inv[1], k % width, k \div width))

Covers(sp, k) == CoversWith(sp, inverse(get_transform_matrix(sp)), k)

\* C1: after render() the layer list is in non-decreasing z-order, layers
\* of equal z-order are in the order they were added, and the dirty-sort
\* flag is clear.
C1_SortedStable ==
    last_op = "render" =>
        /\ ~needs_sort
        /\ IsSortedByZ(sprites)
        /\ \A i, j \in 1..Len(sprites) :
               (i < j /\ sprites[i].z_order = sprites[j].z_order)
                   => IndexIn(inserted, sprites[i].id) < IndexIn(inserted, sprites[j].id)

\* three layers added with z-orders 1, 0, 1 have been rendered: the second
\* one moved to the front and the two of z-order 1 kept their order
C1_Witness ==
    /\ last_op = "render"
    /\ Len(sprites) = 3
    /\ <<sprites[1].id, sprites[2].id, sprites[3].id>> = <<1, 0, 2>>
    /\ <<sprites[1].z_order, sprites[2].z_order, sprites[3].z_order>> = <<0, 1, 1>>
    /\ inserted = <<0, 1, 2>>

\* the source pixel of a 1x1 layer
OnlyPixel(sp) == <<sp.buffer[1], sp.buffer[2], sp.buffer[3], sp.buffer[4]>>

\* the layers that cover pixel k
Covering(k) == {i \in 1..Len(sprites) : Covers(sprites[i], k)}

\* layer i is the last painted of the layers covering pixel k
TopOf(k, i) ==
    /\ i \in Covering(k)
    /\ \A j \in Covering(k) \ {i} : PaintedBefore(sprites[j], sprites[i])

\* the layers of set S composited over the background, the one painted
\* last outermost
RECURSIVE Composited(_)
Composited(S) ==
    IF S = {} THEN background_color
    ELSE LET i == CHOOSE i \in S :
                      \A j \in S \ {i} : PaintedBefore(sprites[j], sprites[i])
         IN  BlendPixel(OnlyPixel(sprites[i]), Composited(S \ {i}))

\* C2: render() paints the layers in sorted order onto the same raster:
\* every pixel is its covering layers blended one over another in order of
\* z-order (order of insertion on ties), the first over the background, so
\* a pixel whose last painted covering layer is opaque has that layer's
\* colour.
C2_PaintedInOrder ==
    (last_op = "render" /\ ~panicked) =>
        \A k \in Pixels :
            /\ TargetPixel(buffer, k) = Composited(Covering(k))
            /\ \A i \in 1..Len(sprites) :
                   (TopOf(k, i) /\ OnlyPixel(sprites[i])[4] = 255) =>
                       TargetPixel(buffer, k) =
                           << sprites[i].buffer[1], sprites[i].buffer[2],
                              sprites[i].buffer[3], 255 >>

\* an opaque layer and a partly transparent one cover the pixel; the partly
\* transparent one was added first but has the higher z-order, and the
\* pixel is it blended over the opaque one, not over the background
C2_Witness ==
    /\ last_op = "render"
    /\ Len(sprites) = 2
    /\ sprites[1].id = 1 /\ sprites[2].id = 0
    /\ sprites[1].z_order < sprites[2].z_order
    /\ sprites[1].buffer = OpaqueA.bytes /\ sprites[2].buffer = PartlyC.bytes
    /\ ~ZeroScale(sprites[1]) /\ ~ZeroScale(sprites[2])
    /\ buffer = BlendPixel(OnlyPixel(sprites[2]), OnlyPixel(sprites[1]))
    /\ buffer # BlendPixel(OnlyPixel(sprites[2]), background_color)

\* C3: a source pixel of alpha 0 leaves the destination bytes unchanged; a
\* source pixel of alpha 255 makes the destination its R, G, B with alpha
\* 255, whatever the destination held.
C3_TransparentAndOpaque ==
    (last_op = "render" /\ Len(sprites) = 1) =>
        /\ OnlyPixel(sprites[1])[4] = 0 => buffer = background_color
        /\ OnlyPixel(sprites[1])[4] = 255 =>
               buffer = << sprites[1].buffer[1], sprites[1].buffer[2],
                           sprites[1].buffer[3], 255 >>

\* an opaque pixel was painted over a background of another colour whose
\* alpha is not 255
C3_Witness ==
    /\ last_op = "render"
    /\ Len(sprites) = 1
    /\ sprites[1].buffer = <<200, 55, 3, 255>>
    /\ background_color = <<3, 3, 252, 100>>
    /\ buffer = <<200, 55, 3, 255>>

Min(a, b) == IF a < b THEN a ELSE b
Max(a, b) == IF a < b THEN b ELSE a

\* C4: for a source alpha A strictly between 0 and 255 every colour channel
\* becomes the truncation of s*(A/255) + d*(1 - A/255), a value between
\* min(s, d) and max(s, d).
C4_ChannelIsTruncatedMix ==
    (last_op = "render" /\ Len(sprites) = 1 /\ OnlyPixel(sprites[1])[4] \in 1..254) =>
        \A c \in 1..3 :
            LET s == sprites[1].buffer[c]
                d == background_color[c]
                A == sprites[1].buffer[4]
            IN  /\ buffer[c] = (s * A + d * (255 - A)) \div 255
                /\ Min(s, d) <= buffer[c]
                /\ buffer[c] <= Max(s, d)

\* C5: for a source alpha A strictly between 0 and 255 the destination
\* alpha D becomes (A/255 + D/255 * (1 - A/255)) * 255 rounded to the
\* nearest integer.
C5_AlphaIsRounded ==
    (last_op = "render" /\ Len(sprites) = 1 /\ OnlyPixel(sprites[1])[4] \in 1..254) =>
        LET A == sprites[1].buffer[4]
            D == background_color[4]
        IN  buffer[4] = (2 * (A * 255 + D * (255 - A)) + 255) \div 510

\* C6: after render() on a scene with no layers every pixel of the raster
\* is the background colour, whatever the raster held before.
C6_BackgroundFill ==
    (last_op = "render" /\ sprites = <<>>) =>
        /\ Len(buffer) = width * height * 4
        /\ \A k \in Pixels : TargetPixel(buffer, k) = background_color

\* a 2x2 scene without layers was rendered with the background 0x12345678
C6_Witness ==
    /\ last_op = "render"
    /\ sprites = <<>>
    /\ width = 2 /\ height = 2
    /\ background_color = <<18, 52, 86, 120>>
    /\ Len(buffer) = 16

\* what C7 says of pixel k, src being its inverse-mapped source coordinate
C7_PixelOk(sp, k, src) ==
    IF /\ FGeq(src[1], FZero) /\ FLess(src[1], FromInt(sp.width))
       /\ FGeq(src[2], FZero) /\ FLess(src[2], FromInt(sp.height))
    THEN \E x \in 0..(sp.width - 1), y \in 0..(sp.height - 1) :
            /\ FGeq(src[1], FromInt(x)) /\ FLess(src[1], FromInt(x + 1))
            /\ FGeq(src[2], FromInt(y)) /\ FLess(src[2], FromInt(y + 1))
            /\ TargetPixel(buffer, k) =
                   BlendPixel(get_pixel_rgba(sp, x, y), background_color)
    ELSE TargetPixel(buffer, k) = background_color

C7_LayerOk(sp, inv) ==
    \A k \in Pixels :
        IF inv = <<>> THEN TargetPixel(buffer, k) = background_color
        ELSE C7_PixelOk(sp, k, transform_point(inv[1],
                                   <<FromInt(k % width), FromInt(k \div width)>>))

\* C7: a pixel whose inverse-mapped source coordinate (sx, sy) is outside
\* 0 <= sx < width, 0 <= sy < height keeps the background; any other pixel
\* is the source pixel at (floor(sx), floor(sy)) composited over it.
C7_SampledInBounds ==
    (last_op = "render" /\ ~panicked /\ Len(sprites) = 1) =>
        C7_LayerOk(sprites[1], inverse(get_transform_matrix(sprites[1])))

\* the source coordinate of pixel k lies in (-1, 0) x [0, height)
C7_JustOutside(sp, src) ==
    /\ FLess(src[1], FZero) /\ FLess(FromInt(-1), src[1])
    /\ FGeq(src[2], FZero) /\ FLess(src[2], FromInt(sp.height))

\* the layer was rendered with pixel 0 mapped to sx in (-1, 0), which kept
\* the background, and pixel 1 mapped inside, which did not
C7_Witness ==
    /\ last_op = "render"
    /\ ~panicked
    /\ Len(sprites) = 1
    /\ sprites[1].buffer = Quad.bytes
    /\ C7_JustOutside(sprites[1],
           SourcePoint(inverse(get_transform_matrix(sprites[1]))[1], 0, 0))
    /\ TargetPixel(buffer, 0) = background_color
    /\ TargetPixel(buffer, 1) # background_color

\* the layers without those of zero scale
RECURSIVE WithoutZeroScale(_)
WithoutZeroScale(list) ==
    IF list = <<>> THEN <<>>
    ELSE IF ZeroScale(Head(list)) THEN WithoutZeroScale(Tail(list))
    ELSE <<Head(list)>> \o WithoutZeroScale(Tail(list))

\* C8: a layer with a zero scale component has no inverse, and render()
\* does not abort and leaves the raster it would leave without that layer.
C8_DegenerateSkipped ==
    last_op = "render" =>
        /\ ~panicked
        /\ \A i \in 1..Len(sprites) :
               ZeroScale(sprites[i]) => inverse(get_transform_matrix(sprites[i])) = <<>>
        /\ buffer = render(WithoutZeroScale(sprites), FALSE, buffer,
                           background_color, width, height).buffer

\* a layer of zero scale was painted first and an opaque layer of another
\* colour after it, which shows
C8_Witness ==
    /\ last_op = "render"
    /\ Len(sprites) = 2
    /\ ZeroScale(sprites[1]) /\ sprites[1].buffer = OpaqueA.bytes
    /\ ~ZeroScale(sprites[2]) /\ sprites[2].buffer = OpaqueB.bytes
    /\ buffer = OpaqueB.bytes

\* every sprite the caller or the scene holds
AllSprites == {staged[i] : i \in 1..Len(staged)} \cup {sprites[i] : i \in 1..Len(sprites)}

\* C9: no layer exists whose byte sequence has a length other than
\* width * height * channels.
C9_NoMismatchedLayer ==
    \A sp \in AllSprites : Len(sp.buffer) = sp.width * sp.height * sp.format

\* C10: after resize(w, h) the raster has w * h * 4 bytes, all zero.
C10_ResizeZeroFills ==
    last_op = "resize" =>
        /\ Len(buffer) = width * height * 4
        /\ \A i \in 1..Len(buffer) : buffer[i] = 0

\* the names of the mutators of Transform2D
TransformMutators ==
    { "Transform2D::set_position", "Transform2D::set_rotation",
      "Transform2D::set_rotation_degrees", "Transform2D::set_scale",
      "Transform2D::set_uniform_scale", "Transform2D::set_anchor",
      "Transform2D::translate", "Transform2D::rotate",
      "Transform2D::rotate_degrees", "Transform2D::scale_by" }

\* translation * rotation * scaling of the position, rotation and scale t has
Composed(t) ==
    multiply(multiply(translation(t.position[1], t.position[2]), rotation(t.rotation)),
             scaling(t.scale[1], t.scale[2]))

\* a mutator leaves the cache empty, a cached matrix is the one of the
\* current fields, and matrix() returns the one of the current fields
C11_Fresh ==
    /\ last_op \in TransformMutators => transform.matrix_cache = <<>>
    /\ transform.matrix_cache # <<>> => transform.matrix_cache[1] = Composed(transform)
    /\ last_op = "Transform2D::matrix" => returned = <<Composed(transform)>>

\* a matrix() call right after a matrix() call returns the same matrix
C11_Repeat ==
    (last_op = "Transform2D::matrix" /\ last_op' = "Transform2D::matrix")
        => returned' = returned

\* C11: under every interleaving of mutators and matrix() calls, matrix()
\* returns T*R*S of the current position, rotation and scale, every mutator
\* leaves the cache empty, and two matrix() calls in a row return the same.
C11_CacheCoherent == []C11_Fresh /\ [][C11_Repeat]_vars

\* matrix() has returned the matrix of a transform that was translated to
\* (1, 0.5), rotated to pi/4 and scaled to (4, 4) by the incremental mutators
C11_Witness ==
    /\ last_op = "Transform2D::matrix"
    /\ transform.position = <<FOne, FromDyadic(1, 1)>>
    /\ transform.rotation = QuarterPi
    /\ transform.scale = <<FromInt(4), FromInt(4)>>
    /\ transform.matrix_cache = returned
    /\ returned[1] # identity

\* the points with coordinates 0 and 1
UnitPoints == {<<FromInt(x), FromInt(y)>> : x, y \in {0, 1}}

\* point p scaled, then rotated, then translated as transform t says
ScaledRotatedTranslated(t, p) ==
    transform_point(translation(t.position[1], t.position[2]),
        transform_point(rotation(t.rotation),
            transform_point(scaling(t.scale[1], t.scale[2]), p)))

\* C12: a.multiply(b) applies b first and then a, and the matrix returned
\* by matrix() scales a point first, then rotates it, then translates it;
\* with scale (2,2), rotation 90 degrees and translation (10,10) the point
\* (1,0) maps to (10,12).
C12_ScaleRotateTranslate ==
    last_op = "Transform2D::matrix" =>
        /\ \A p \in UnitPoints :
               /\ transform_point(returned[1], p) = ScaledRotatedTranslated(transform, p)
               /\ transform_point(multiply(rotation(transform.rotation),
                                           scaling(transform.scale[1], transform.scale[2])), p)
                      = transform_point(rotation(transform.rotation),
                            transform_point(scaling(transform.scale[1],
                                                    transform.scale[2]), p))
        /\ ( /\ transform.scale = <<FromInt(2), FromInt(2)>>
             /\ transform.rotation = to_radians(FromInt(90))
             /\ transform.position = <<FromInt(10), FromInt(10)>> )
               => transform_point(returned[1], <<FOne, FZero>>) = <<FromInt(10), FromInt(12)>>

\* matrix() was called with scale (2,2), rotation 90 degrees and position
\* (10,10), and the matrix maps (1,0) to (10,12)
C12_Witness ==
    /\ last_op = "Transform2D::matrix"
    /\ transform.scale = <<FromInt(2), FromInt(2)>>
    /\ transform.rotation = HalfPi
    /\ transform.position = <<FromInt(10), FromInt(10)>>
    /\ transform_point(returned[1], <<FOne, FZero>>) = <<FromInt(10), FromInt(12)>>

\* the layer-local point of the anchor of transform t in a layer of size w x h
AnchorPoint(t, w, h) == <<FMul(t.anchor[1], w), FMul(t.anchor[2], h)>>

\* C13: matrix_with_size(w, h) is matrix() times translation(-anchor.x*w,
\* -anchor.y*h) with the anchor current at the call, so it maps the point
\* (anchor.x*w, anchor.y*h) to the position, whatever rotation and scale.
C13_AnchorMapsToPosition ==
    last_op = "Transform2D::matrix_with_size" =>
        /\ returned[1] =
               multiply(Composed(transform),
                        translation(FNeg(AnchorPoint(transform, returned[2], returned[3])[1]),
                                    FNeg(AnchorPoint(transform, returned[2], returned[3])[2])))
        /\ transform_point(returned[1], AnchorPoint(transform, returned[2], returned[3]))
               = transform.position

\* matrix_with_size returned matrix() * translation(-anchor.x*w, -anchor.y*h)
C13_RightComposed ==
    returned[1] =
        multiply(Composed(transform),
                 translation(FNeg(AnchorPoint(transform, returned[2], returned[3])[1]),
                             FNeg(AnchorPoint(transform, returned[2], returned[3])[2])))

\* x is t up to the rounding of two f32 additions of magnitude |t| + |u|:
\* |x - t| <= 2^-22 * (|t| + |u|)
WithinRounding(x, t, u) ==
    ~FLess(FMul(FromDyadic(1, 22), FAdd(FAbs(t), FAbs(u))), FAbs(FSub(x, t)))

\* the anchor point rotated and scaled, not yet translated
AnchorOffset(t, w, h) ==
    transform_point(multiply(rotation(t.rotation), scaling(t.scale[1], t.scale[2])),
                    AnchorPoint(t, w, h))

\* image is position up to rounding, offset being the rotated and scaled
\* anchor point
NearPosition(image, position, offset) ==
    /\ WithinRounding(image[1], position[1], offset[1])
    /\ WithinRounding(image[2], position[2], offset[2])

\* C13 as amended: matrix_with_size(w, h) is matrix() times
\* translation(-anchor.x*w, -anchor.y*h) with the anchor current at the
\* call, and it maps the point (anchor.x*w, anchor.y*h) to the position up
\* to f32 rounding: each coordinate within 2^-22 * (|position| + |offset|).
C13_AnchorMapsNearPosition ==
    last_op = "Transform2D::matrix_with_size" =>
        /\ C13_RightComposed
        /\ NearPosition(
               transform_point(returned[1],
                               AnchorPoint(transform, returned[2], returned[3])),
               transform.position,
               AnchorOffset(transform, returned[2], returned[3]))

\* matrix_with_size(2, 1) was called with rotation pi/2, position (1, 0.5)
\* and anchor (0.5, 0.5): the anchor point (1, 0.5) is mapped beside the
\* position, not onto it
C13_Witness ==
    /\ last_op = "Transform2D::matrix_with_size"
    /\ returned[2] = FromInt(2)
    /\ transform.rotation = HalfPi
    /\ transform.position = <<FOne, FromDyadic(1, 1)>>
    /\ transform.anchor = <<FromDyadic(1, 1), FromDyadic(1, 1)>>
    /\ transform_point(returned[1], AnchorPoint(transform, returned[2], returned[3]))
           # transform.position

\* the ids of the layers, in list order
Ids(list) == [i \in 1..Len(list) |-> list[i].id]

\* the raster shows the last layer of the list on top (the layers of
\* SpecReorder are opaque and cover the one pixel)
LastOnTop(list, raster) ==
    list # <<>> => raster = OnlyPixel(list[Len(list)])

\* C14: the Scene does not observe z-order changes. set_z_order through
\* get_sprite_mut neither reorders the list nor sets the dirty flag; a
\* render() with the flag clear paints the layers in the order the list
\* had, whatever their z-orders are now; a render() with the flag set
\* (mark_needs_sort or add came before) paints in ascending new z-order.
C14_Step ==
    /\ last_op' = "set_z_order" =>
           /\ needs_sort' = needs_sort
           /\ Ids(sprites') = Ids(sprites)
    /\ (last_op' = "render" /\ ~needs_sort) =>
           /\ Ids(sprites') = Ids(sprites)
           /\ LastOnTop(sprites', buffer')
    /\ (last_op' = "render" /\ needs_sort) =>
           /\ IsSortedByZ(sprites')
           /\ LastOnTop(sprites', buffer')

C14_ZOrderNotObserved == [][C14_Step]_vars

\* two layers were rendered, the z-order of the lower one was then raised
\* above the other's, and the next render() still painted it underneath:
\* the list is out of z-order after a render
C14_Witness ==
    /\ last_op = "render"
    /\ Len(sprites) = 2
    /\ sprites[1].z_order > sprites[2].z_order
    /\ buffer = OnlyPixel(sprites[2])
    /\ buffer # OnlyPixel(sprites[1])

\* the per-sprite mutators and getters of scene/wasm.rs, the getters with
\* their defaults, and the per-sprite mutators of wasm_demo.rs
WasmMutators ==
    {"WasmScene::set_sprite_position", "WasmScene::set_sprite_rotation",
     "WasmScene::set_sprite_scale", "WasmScene::set_sprite_uniform_scale",
     "WasmScene::set_sprite_anchor", "WasmScene::translate_sprite",
     "WasmScene::rotate_sprite", "WasmScene::scale_sprite_by",
     "WasmScene::reset_sprite_transform"}

WasmGetterDefaults ==
    [op \in {"WasmScene::get_sprite_position_x", "WasmScene::get_sprite_position_y",
             "WasmScene::get_sprite_rotation", "WasmScene::get_sprite_scale_x",
             "WasmScene::get_sprite_scale_y"} |->
        IF op \in {"WasmScene::get_sprite_scale_x", "WasmScene::get_sprite_scale_y"}
        THEN FromInt(1) ELSE FromInt(0)]

DemoMutators ==
    {"demo::set_sprite_position", "demo::set_sprite_rotation", "demo::set_sprite_scale",
     "demo::set_sprite_uniform_scale", "demo::set_sprite_anchor",
     "demo::set_sprite_z_order"}

\* the index is out of range of sprite_ids, or maps to an id that no layer
\* of the scene has
NoLayerAt(index) ==
    \/ index >= Len(sprite_ids)
    \/ \A i \in 1..Len(sprites) : sprites[i].id # sprite_ids[index + 1]

\* the layers with their transforms and caches, the layer list, the raster
\* and everything else the bindings hold stay as they are
C15_NothingChanges ==
    UNCHANGED <<sprites, demo_sprites, sprite_ids, buffer, width, height,
                background_color, needs_sort, panicked>>

\* C15: in both host bindings a per-layer mutator called with an index that
\* is out of range (or whose id is no longer in the scene) changes nothing,
\* and a per-layer getter called with such an index returns its default:
\* 0 for position x, position y and rotation, 1 for scale x and scale y.
C15_Step ==
    /\ (last_op' \in WasmMutators /\ NoLayerAt(last_index')) => C15_NothingChanges
    /\ (last_op' \in DOMAIN WasmGetterDefaults /\ NoLayerAt(last_index')) =>
           /\ returned' = <<WasmGetterDefaults[last_op']>>
           /\ C15_NothingChanges
    /\ (last_op' \in DemoMutators /\ last_index' >= Len(demo_sprites)) =>
           C15_NothingChanges

C15_InvalidIndexIgnored == [][C15_Step]_vars

\* get_sprite_scale_x was called with index 1 on a binding that holds one
\* rectangle, of scale 2 and with its matrix cached: it returned 1
C15_Witness ==
    /\ last_op = "WasmScene::get_sprite_scale_x"
    /\ last_index = 1
    /\ Len(sprite_ids) = 1
    /\ Len(sprites) = 1
    /\ sprites[1].transform.scale[1] = FromInt(2)
    /\ sprites[1].transform.matrix_cache # <<>>
    /\ returned = <<FOne>>

\* a layer of this id is in the list
HasId(list, id) == \E i \in 1..Len(list) : list[i].id = id

\* after is before with the element at pos taken out and the others in
\* their order
TakenOut(before, after, pos) ==
    /\ Len(after) = Len(before) - 1
    /\ \A i \in 1..Len(after) : after[i] = IF i < pos THEN before[i] ELSE before[i + 1]

\* C16: add(layer) appends the layer to the end of the list, sets the
\* dirty-sort flag, makes sprite_count one more and returns the layer's id;
\* remove(id) returns true exactly when a layer of that id is in the scene,
\* and then takes that one layer out and keeps the order of the others;
\* otherwise it returns false and leaves the list as it is.
C16_Step ==
    /\ Add =>
           /\ Len(sprites') = Len(sprites) + 1
           /\ SubSeq(sprites', 1, Len(sprites)) = sprites
           /\ sprites'[Len(sprites')] = staged[1]
           /\ needs_sort'
           /\ returned' = <<staged[1].id>>
    /\ \A id \in 0..(MaxSprites - 1) :
           Remove(id) =>
               /\ returned' = <<HasId(sprites, id)>>
               /\ HasId(sprites, id) =>
                      /\ ~HasId(sprites', id)
                      /\ \E pos \in 1..Len(sprites) :
                             sprites[pos].id = id /\ TakenOut(sprites, sprites', pos)
               /\ ~HasId(sprites, id) => sprites' = sprites

C16_AddRemove == [][C16_Step]_vars

\* three layers were added and the one in the middle removed: remove
\* returned true and the first and the last are left, in that order
C16_Witness ==
    /\ last_op = "remove"
    /\ returned = <<TRUE>>
    /\ inserted = <<0, 1, 2>>
    /\ Ids(sprites) = <<0, 2>>

\* the layers in existence, in a row: those of the scene, then the one
\* constructed and not yet added
Alive == sprites \o staged

\* the ids of the layers constructed so far (each one was added, or is the
\* one not yet added)
ConstructedIds == {inserted[i] : i \in 1..Len(inserted)} \cup {staged[i].id : i \in 1..Len(staged)}

\* each layer with its pixel data, whatever its place in the list
IdOfData(list) == {<<list[i].id, list[i].buffer>> : i \in 1..Len(list)}

\* no two layers in existence share an id
C17_Distinct ==
    \A i, j \in 1..Len(Alive) : i # j => Alive[i].id # Alive[j].id

\* a layer constructed now has an id above every id constructed before,
\* and the layers that stay keep their ids
C17_Step ==
    /\ (staged = <<>> /\ staged' # <<>>) =>
           \A k \in ConstructedIds : staged'[1].id > k
    /\ IdOfData(Alive') \subseteq IdOfData(Alive) \cup IdOfData(staged')
    /\ last_op' \in {"add", "render", "staged_set_z_order"} =>
           Ids(Alive') \in {Ids(Alive), Ids(SortByZ(sprites) \o staged)}

\* C17: any two layers constructed (through new or from_buffer) have
\* different ids, a layer constructed later has a strictly larger id, and a
\* layer's id never changes; hence after any sequence of add / remove /
\* clear / render no two layers held by a Scene share an id.
C17_UniqueIds == []C17_Distinct /\ [][C17_Step]_vars

\* three layers were constructed, through new and through from_buffer,
\* one was removed and the scene rendered: the two left have the ids they
\* were constructed with, the one made by new the larger
C17_Witness ==
    /\ last_op = "render"
    /\ inserted = <<0, 1, 2>>
    /\ Len(sprites) = 2
    /\ sprites[1].id = 2 /\ sprites[1].buffer = <<0, 0, 0, 0>>
    /\ sprites[2].id = 0 /\ sprites[2].buffer = OpaqueA.bytes

\* n as count bytes, lowest first
NatBytes(n, count) == [i \in 1..count |-> ByteAt(U32Bytes(n), i)]

\* the buffer has width * height * channels bytes, the product taken in
\* full, and every byte is zero
ZeroedExact(buf, w, h, channels) ==
    /\ NatBytes(Len(buf), 12) =
           FullProduct(FullProduct(U32Bytes(w), U32Bytes(h)), U32Bytes(channels))
    /\ \A i \in 1..Len(buf) : buf[i] = 0

\* C18: for every u32 width, every u32 height and every format a newly
\* constructed pixel buffer (SharedBuffer::new, ImageSprite::new, and with
\* 4 channels Scene::new) has exactly width * height * channels bytes, all
\* zero.
C18_ZeroedExactLength ==
    ~panicked =>
        /\ last_op = "new" => ZeroedExact(buffer, width, height, 4)
        /\ last_op = "sprite_new" =>
               ZeroedExact(staged[1].buffer, staged[1].width, staged[1].height,
                           staged[1].format)
        /\ last_op = "SharedBuffer::new" =>
               ZeroedExact(returned[1].buffer, returned[1].width, returned[1].height,
                           returned[1].format)

\* the same for the sizes whose byte count fits a u32
C18_FitsThenZeroedExact ==
    (~panicked /\ last_op = "SharedBuffer::new"
        /\ ~SizeOverflows(returned[1].width, returned[1].height, returned[1].format))
    => ZeroedExact(returned[1].buffer, returned[1].width, returned[1].height,
                   returned[1].format)

\* the pixel (x, y) of an RGB or grayscale layer as four channels: R, G, B
\* and 255, or the gray value three times and 255
Normalised(sp, x, y) ==
    IF sp.format = Rgb
    THEN <<sp.buffer[3 * (y * sp.width + x) + 1], sp.buffer[3 * (y * sp.width + x) + 2],
           sp.buffer[3 * (y * sp.width + x) + 3], 255>>
    ELSE <<sp.buffer[y * sp.width + x + 1], sp.buffer[y * sp.width + x + 1],
           sp.buffer[y * sp.width + x + 1], 255>>

\* the layer painted last of those covering pixel k: the last in the list
LastCovering(k) == CHOOSE i \in Covering(k) : \A j \in Covering(k) : j <= i

\* pixel k of the raster is the normalised pixel of layer sp that src, its
\* inverse-mapped source coordinate, falls in
ShowsSource(sp, k, src) ==
    \E x \in 0..(sp.width - 1), y \in 0..(sp.height - 1) :
        /\ FGeq(src[1], FromInt(x)) /\ FLess(src[1], FromInt(x + 1))
        /\ FGeq(src[2], FromInt(y)) /\ FLess(src[2], FromInt(y + 1))
        /\ TargetPixel(buffer, k) = Normalised(sp, x, y)

\* C19: a source pixel of an RGB layer is taken as (R, G, B, 255) and one
\* of a grayscale layer as (g, g, g, 255); a destination pixel whose last
\* painted covering layer is RGB or grayscale is exactly that colour with
\* alpha 255, whatever was beneath it.
C19_OpaqueFormats ==
    last_op = "render" =>
        /\ ~panicked
        /\ \A k \in Pixels :
               (Covering(k) # {} /\ sprites[LastCovering(k)].format \in {Rgb, Grayscale}) =>
                   ShowsSource(sprites[LastCovering(k)], k,
                       SourcePoint(inverse(get_transform_matrix(sprites[LastCovering(k)]))[1],
                                   k % width, k \div width))

\* a grayscale row was rendered pixel over pixel above a partly transparent
\* RGBA row, over a background of alpha 100: the raster is the two gray
\* values, opaque
C19_Witness ==
    /\ last_op = "render"
    /\ background_color = <<40, 80, 120, 100>>
    /\ Len(sprites) = 2
    /\ sprites[1].format = Rgba /\ sprites[2].format = Grayscale
    /\ Covering(0) = {1, 2} /\ Covering(1) = {2}
    /\ buffer = <<77, 77, 77, 255,  99, 99, 99, 255>>

\* the f32 nearest to 1e-6 (0x358637BD)
Tolerance == [s |-> 1, m |-> 8796093, e |-> -43]

\* every entry of a differs from the entry of b by less than 1e-6
EntriesWithin(a, b) ==
    \A i \in 1..9 : FLess(FAbs(FSub(a[i], b[i])), Tolerance)

IsTranslation(m) == m = translation(m[3], m[6])

C21_RasterLength ==
    /\ ~panicked =>
           NatBytes(Len(buffer), 12) =
               FullProduct(FullProduct(U32Bytes(width), U32Bytes(height)), U32Bytes(4))
    /\ last_op = "render" => ~panicked

\* the same while width * height * 4 fits a u32
C21_FitsThenRasterLength ==
    ~SizeOverflows(width, height, 4) =>
        /\ ~panicked
        /\ Len(buffer) = width * height * 4

\* the raster render() would leave if the raster before the call were buf
RasterAfterRender(buf) ==
    render(sprites, needs_sort, buf, background_color, width, height).buffer

\* C22: render() is idempotent and history-free.  In a state that a
\* render() has just left, another render() leaves the same raster; and in
\* every state the raster render() leaves is the one it would leave had the
\* raster been all zero or all 255 before the call: it depends on the size,
\* the background colour and the layers, not on the raster before.
C22_RenderHistoryFree ==
    ~panicked =>
        /\ last_op = "render" => RasterAfterRender(buffer) = buffer
        /\ RasterAfterRender(buffer) = RasterAfterRender(Fill(0, Len(buffer)))
        /\ RasterAfterRender(buffer) = RasterAfterRender(Fill(255, Len(buffer)))

\* a render() has left a raster whose first pixel is a partly transparent
\* layer blended over a partly transparent background, neither of them
\* plain, and whose second pixel is that layer's opaque pixel
C22_Witness ==
    /\ last_op = "render"
    /\ ~panicked
    /\ background_color = <<40, 80, 120, 100>>
    /\ Len(sprites) = 1
    /\ sprites[1].buffer = PartlyRow.bytes
    /\ TargetPixel(buffer, 0) \notin {<<40, 80, 120, 100>>, <<3, 3, 3, 65>>}
    /\ TargetPixel(buffer, 1) = <<200, 100, 50, 255>>

\* two layers that differ in the matrix cache at most: the same id, pixel
\* data, format, width, height, z-order, position, rotation, scale, anchor
SameButCache(a, b) ==
    [a EXCEPT !.transform.matrix_cache = <<>>] = [b EXCEPT !.transform.matrix_cache = <<>>]

\* what a render() step leaves alone
C23_Step ==
    Render =>
        /\ width' = width /\ height' = height
        /\ background_color' = background_color
        /\ staged' = staged
        /\ Len(sprites') = Len(sprites)
        /\ \A i \in 1..Len(sprites) :
               \E j \in 1..Len(sprites') : SameButCache(sprites[i], sprites'[j])

\* C23: render() changes the raster, the order of the layer list, the
\* dirty-sort flag and the layers' matrix caches only: the layers after it
\* are the layers before it, each with the same id, pixel data, width,
\* height, z-order, position, rotation, scale and anchor, and the scene's
\* width, height and background colour are the same.
C23_RenderFrame == [][C23_Step]_vars

\* a render() has reordered the two layers of the list and filled their
\* matrix caches
C23_Witness ==
    /\ last_op = "render"
    /\ ~panicked
    /\ inserted = <<0, 1>>
    /\ Len(sprites) = 2
    /\ sprites[1].id = 1 /\ sprites[2].id = 0
    /\ sprites[1].transform.matrix_cache # <<>>
    /\ sprites[2].transform.matrix_cache # <<>>
    /\ sprites[2].transform.position = <<FOne, FZero>>

\* the id of the sprite that add_sprite returned this index for: ids are
\* handed out in ascending order and add_sprite returns the indices in
\* ascending order, so it is the id with `index` smaller ids in the list
AddedAt(list, index) ==
    CHOOSE id \in {list[i].id : i \in 1..Len(list)} :
        Cardinality({j \in 1..Len(list) : list[j].id < id}) = index

\* a setter called with a valid index leaves every sprite alone but the
\* one add_sprite returned the index for
C24_Step ==
    (last_op' \in DemoMutators /\ last_index' < Len(demo_sprites)) =>
        \A i \in 1..Len(demo_sprites) :
            demo_sprites[i].id # AddedAt(demo_sprites, last_index')
                => demo_sprites'[i] = demo_sprites[i]

\* C24: in the WasmScene of wasm_demo.rs the index returned by add_sprite
\* keeps designating the same sprite for every later setter call, after
\* any number of render() calls and for any z-orders.
C24_IndexKeepsSprite == [][C24_Step]_vars

\* the index list and the scene are in step: as many entries as layers,
\* every entry the id of a layer of the scene, no entry twice
InStep ==
    /\ Len(sprite_ids) = Len(sprites)
    /\ \A i \in 1..Len(sprite_ids) : \E j \in 1..Len(sprites) : sprites[j].id = sprite_ids[i]
    /\ \A i, j \in 1..Len(sprite_ids) : sprite_ids[i] = sprite_ids[j] => i = j

\* in every state the lists are in step; add_rectangle has returned the
\* index of the entry it pushed, which is the id of the layer it created;
\* after clear() both are empty
C25_Invariant ==
    ~panicked =>
        /\ InStep
        /\ last_op = "WasmScene::add_rectangle" =>
               /\ returned = <<Len(sprite_ids) - 1>>
               /\ sprite_ids[returned[1] + 1] = NEXT_SPRITE_ID - 1
        /\ last_op = "WasmScene::clear" => (sprite_ids = <<>> /\ sprites = <<>>)

\* the field of the transform t that a getter reads
WasmGetterValue(op, t) ==
    CASE op = "WasmScene::get_sprite_position_x" -> t.position[1]
      [] op = "WasmScene::get_sprite_position_y" -> t.position[2]
      [] op = "WasmScene::get_sprite_rotation" -> t.rotation
      [] op = "WasmScene::get_sprite_scale_x" -> t.scale[1]
      [] op = "WasmScene::get_sprite_scale_y" -> t.scale[2]

\* a step that is not clear() keeps every entry of the index list; a
\* mutator called with a valid index leaves every layer alone but the one
\* whose id the entry holds, wherever it is in the layer list; a getter
\* returns the field of that layer
C25_Step ==
    /\ last_op' # "WasmScene::clear" =>
           /\ Len(sprite_ids') >= Len(sprite_ids)
           /\ \A i \in 1..Len(sprite_ids) : sprite_ids'[i] = sprite_ids[i]
    /\ (last_op' \in WasmMutators /\ last_index' < Len(sprite_ids)) =>
           /\ Ids(sprites') = Ids(sprites)
           /\ \A i \in 1..Len(sprites) :
                  sprites[i].id # sprite_ids[last_index' + 1] => sprites'[i] = sprites[i]
    /\ (last_op' \in DOMAIN WasmGetterDefaults /\ last_index' < Len(sprite_ids)) =>
           \E i \in 1..Len(sprites) :
               /\ sprites[i].id = sprite_ids[last_index' + 1]
               /\ returned' = <<WasmGetterValue(last_op', sprites[i].transform)>>

\* C25: in the WasmScene of scene/wasm.rs, after any sequence of
\* add_rectangle, per-sprite calls, render and clear, the index list and
\* the scene are in step, the index add_rectangle returned keeps
\* designating the layer it was returned for, and after clear() the index
\* list and the scene are empty.
C25_IndexListInStep == []C25_Invariant /\ [][C25_Step]_vars

\* two rectangles were added, render() has put the second before the
\* first in the layer list, and index 0 was then used to move the first:
\* the layer of id 0 has moved, the other one has not
C25_Witness ==
    /\ last_op = "WasmScene::set_sprite_position"
    /\ last_index = 0
    /\ sprite_ids = <<0, 1>>
    /\ Len(sprites) = 2
    /\ sprites[1].id = 1 /\ sprites[2].id = 0
    /\ sprites[2].transform.position = <<FOne, FromDyadic(1, 1)>>
    /\ sprites[1].transform.position = <<FZero, FZero>>
    /\ sprites[1].transform.matrix_cache # <<>>

====
